---- MODULE Spec2Model ----
(***************************************************************************)
(* The resumable render-job pipeline of automate-py: the job store         *)
(* (JobManager.job_statuses + the sqlite jobs table), the asyncio job      *)
(* queue, the admission semaphore, the worker tasks running process_job,   *)
(* the job directories on disk, the submission route, and process death,   *)
(* shutdown and restart.                                                   *)
(*                                                                         *)
(* Granularity: asyncio runs a coroutine without interruption up to its    *)
(* next suspending await, so one action is one such segment of a handler.  *)
(* A worker's pc names the await it is suspended in.  update_job_status    *)
(* writes the in-memory record and then awaits the row UPDATE + commit on  *)
(* the single aiosqlite connection, which applies writes in submission     *)
(* order; the record and the row are written in the same action, and the   *)
(* worker is then suspended at the pc named after that update.             *)
(*                                                                         *)
(* Jobs of the model have a one-sentence script and no background music    *)
(* (audio_mixer.mix_audio then returns the voice file without awaiting).   *)
(* Jobs of the pipeline specifications are not short-format; the thumbnail *)
(* bake for 9:16 videos (worker.py 451-471) is followed by SpecBake.       *)
(*                                                                         *)
(* Spec runs one request with any number of permits, so that a job that    *)
(* requeue_job delivers twice is run by two workers at once.  SpecPool     *)
(* runs NumJobs requests through NumWorkers worker tasks and one permit.   *)
(* SpecLive is the pool workload on a service that stays up, with fair     *)
(* worker tasks; SpecDuplicate adds callers of add_job that reuse an id.   *)
(* SpecStore is the job store alone with update_job_status split at its    *)
(* await: the record is written, then the row.  SpecPlan is the timing     *)
(* plan of one generated_images job: extended durations, subtitle windows, *)
(* gapped narration track and crossfade offsets, in ticks of 0.25 ms.      *)
(* SpecWebhook is one _send_webhook call, attempt by attempt; SpecImages   *)
(* is the images step, list by list; SpecBake is the thumbnail and bake    *)
(* steps of one job over its runs, with crash, failure and requeue.        *)
(***************************************************************************)
EXTENDS Integers, Sequences, FiniteSets, TLC

\* ------------------------------------------------------------- bounds
NumJobs == 2
NumWorkers == 2
MaxRequeueCalls == 2

Jobs == 1..NumJobs
Workers == 1..NumWorkers

\* ---------------------------------------------------------- constants
None == "None"
NoLoc == <<>>
NoRow == [status |-> "absent"]
NoJob == [job_id |-> 0]

Modes == {"base_video", "generated_images"}

\* worker.py 86-100
step_order(step) ==
  CASE step = "script" -> 1
    [] step = "voiceover" -> 2
    [] step = "voiceover_uploaded" -> 3
    [] step = "voiceover_webhooked" -> 4
    [] step = "images" -> 5
    [] step = "video_dimensions" -> 6
    [] step = "subtitles" -> 7
    [] step = "mix_audio" -> 8
    [] step = "render_video" -> 9
    [] step = "assets_uploaded" -> 10
    [] step = "thumbnail" -> 11
    [] step = "video_completed" -> 12
    [] step = "completed" -> 13
    [] OTHER -> 0

\* s3_uploader.py 116-170, 204: the locator is s3://bucket/<prefix>/<job_id>-<file name>
upload_voice(j) == <<"uploads/voiceovers", j, "voice.wav">>
upload_subtitle(j) == <<"uploads/subtitles", j, "subs.ass">>
upload_video(j) == <<"uploads/renders", j, "final.mp4">>
upload_thumbnail(j) == <<"uploads/thumbnails", j, "thumbnail.jpg">>

\* constants.py 38-39
CLEANUP_ON_SUCCESS == TRUE
CLEANUP_ON_FAILURE == TRUE

VARIABLES
  alive,                \* the service process is running
  max_concurrent_jobs,  \* JobManager.max_concurrent_jobs (settings)
  webhook_up,           \* FALSE: the webhook endpoint fails every delivery attempt
  requests,             \* the POST /render requests still to come: their video_mode
  requeues_left,        \* how many requeue_job calls are still to come
  responses,            \* the job_ids POST /render has returned with status queued
  db,                   \* the jobs table: committed rows
  job_statuses,         \* JobManager.job_statuses
  job_queue,            \* JobManager.job_queue
  semaphore,            \* free permits of JobManager.semaphore
  requeue_calls,        \* requeue_job calls suspended in _fetch_job_payload, per job
  wk,                   \* per worker task: pc and the locals of process_job
  files,                \* per job: the files in its job directory
  row_writes,           \* update_job_status calls suspended in _update_status_row
  plan,                 \* the timing plan of one generated_images job
  send,                 \* one _send_webhook call: its position and its attempts
  short                 \* the steps of one job after its assets are uploaded

vars == << alive, max_concurrent_jobs, webhook_up, requests, requeues_left, responses, db,
           job_statuses, job_queue, semaphore, requeue_calls, wk, files, row_writes,
           plan, send, short >>

\* the settings and what the clients still have to send; and the variables that
\* only the store, the planner and the webhook specification change
env == << max_concurrent_jobs, webhook_up, requests, requeues_left, responses,
          row_writes, plan, send, short >>

\* no plan: the job has not reached the images step; also the value of send and of
\* short in the specifications that do not follow a webhook call or a bake
NoPlan == [pc |-> "none"]

\* job_manager.py 16-28 (JobStatus) / 75-87 (jobs row; payload holds the RenderJob)
NewStatus ==
  [status |-> "queued", step |-> None, voice_url |-> NoLoc, subtitles_url |-> NoLoc,
   video_url |-> NoLoc, thumbnail_url |-> NoLoc, error |-> None]

NewRow(mode) ==
  [status |-> "queued", step |-> None, voice_url |-> NoLoc, subtitles_url |-> NoLoc,
   video_url |-> NoLoc, thumbnail_url |-> NoLoc, error |-> None, payload |-> mode]

\* worker.py 69-84, 109-114: the locals of process_job
IdleLocals ==
  [pc |-> "idle", job |-> NoJob, step_name |-> "", step_index |-> 0,
   voice_url |-> NoLoc, subtitles_url |-> NoLoc, video_url |-> NoLoc,
   thumbnail_url |-> NoLoc, final_video |-> FALSE, image_paths |-> FALSE,
   assets_ready |-> FALSE]

\* job_manager.py 238-258 and 344-366: the fields one update call sets
SetFields(rec, status, step, v, s, vid, t, err, clear_error) ==
  [rec EXCEPT
     !.status = status,
     !.step = IF step # None THEN step ELSE @,
     !.voice_url = IF v # NoLoc THEN v ELSE @,
     !.subtitles_url = IF s # NoLoc THEN s ELSE @,
     !.video_url = IF vid # NoLoc THEN vid ELSE @,
     !.thumbnail_url = IF t # NoLoc THEN t ELSE @,
     !.error = IF err # None THEN err ELSE IF clear_error THEN None ELSE @]

\* an update that clears the error only when its caller asks for it
ClearErrorOnRequest(status, err) == FALSE

\* job_manager.py 240-241
ClearError(status, err) == err = None /\ status \in {"queued", "processing", "completed"}

\* an UPDATE without its WHERE job_id = ? clause: every row takes the new values
_update_every_row(rows, j, status, step, v, s, vid, t, err, clear_error) ==
  [i \in Jobs |-> IF rows[i] = NoRow THEN NoRow
                  ELSE SetFields(rows[i], status, step, v, s, vid, t, err, clear_error)]

\* job_manager.py 329-374
_update_status_row(rows, j, status, step, v, s, vid, t, err, clear_error) ==
  IF rows[j] = NoRow THEN rows
  ELSE [rows EXCEPT ![j] = SetFields(@, status, step, v, s, vid, t, err, clear_error)]

\* job_manager.py 209-272
update_job_status(j, status, step, v, s, vid, t, err) ==
  IF job_statuses[j] = NoRow
  THEN UNCHANGED << job_statuses, db >>
  ELSE /\ job_statuses' = [job_statuses EXCEPT
            ![j] = SetFields(@, status, step, v, s, vid, t, err, ClearError(status, err))]
       /\ db' = _update_status_row(db, j, status, step, v, s, vid, t, err,
                                   ClearError(status, err))

\* worker.py 118-124: the step handed to the store, judged against the local step_index
NextStep(step_index, step) ==
  IF step = None THEN None
  ELSE IF step_order(step) <= step_index THEN None ELSE step

StepIndexAfter(step_index, step) ==
  IF step # None /\ step_order(step) > step_index THEN step_order(step) ELSE step_index

\* worker.py 116-130
_update_status(l, status, step, v, s, vid, t) ==
  update_job_status(l.job.job_id, status, NextStep(l.step_index, step), v, s, vid, t, None)


\* ------------------------------------------------- process_job helpers
Goto(w, l, pc) == wk' = [wk EXCEPT ![w] = [l EXCEPT !.pc = pc]]

\* an _update_status call of worker w, which then waits at pc
Upd(w, l, status, step, v, s, vid, t, pc) ==
  /\ _update_status(l, status, step, v, s, vid, t)
  /\ Goto(w, [l EXCEPT !.step_index = StepIndexAfter(@, step)], pc)

\* an except block that also overwrites the step, with the name of its own state
RaiseWritingStep(w, l, error_msg) ==
  /\ update_job_status(l.job.job_id, "failed", "failed", NoLoc, NoLoc, NoLoc, NoLoc, error_msg)
  /\ Goto(w, l, "failed")

\* worker.py 500-503: the except block up to its first await
Raise(w, l, error_msg) ==
  /\ update_job_status(l.job.job_id, "failed", None, NoLoc, NoLoc, NoLoc, NoLoc, error_msg)
  /\ Goto(w, l, "failed")

\* a send that lets the failure of its last attempt reach the caller
_send_webhook_raising(delivered) == IF delivered THEN "returned" ELSE "raised"

\* webhook_service.py 127-173: how a send ends, delivered or not: every exception
\* of an attempt is caught and logged, so the call returns
_send_webhook(delivered) == "returned"

\* the outcomes a delivery can have with the endpoint as it is
Deliveries == IF webhook_up THEN BOOLEAN ELSE {FALSE}

\* a return from process_job that keeps the permit (no async with around the job)
LeaveProcessJobKeepingPermit(w, j, job_succeeded) ==
  /\ files' = IF \/ job_succeeded /\ CLEANUP_ON_SUCCESS
                 \/ ~job_succeeded /\ CLEANUP_ON_FAILURE
              THEN [files EXCEPT ![j] = {}]
              ELSE files
  /\ semaphore' = semaphore
  /\ wk' = [wk EXCEPT ![w] = IdleLocals]

\* worker.py 533-537 (file_manager.py 14-30), then the permit's release (worker.py 553)
LeaveProcessJob(w, j, job_succeeded) ==
  /\ files' = IF \/ job_succeeded /\ CLEANUP_ON_SUCCESS
                 \/ ~job_succeeded /\ CLEANUP_ON_FAILURE
              THEN [files EXCEPT ![j] = {}]
              ELSE files
  /\ semaphore' = semaphore + 1
  /\ wk' = [wk EXCEPT ![w] = IdleLocals]

\* worker.py 473-497
Completion(w, l) ==
  IF l.voice_url = NoLoc
  THEN Raise(w, l, "Missing voiceover for completion webhook")
  ELSE IF l.step_index < step_order("video_completed")
       THEN UNCHANGED << job_statuses, db >> /\ Goto(w, l, "send_video_completed")
       ELSE Upd(w, l, "completed", "completed", l.voice_url, l.subtitles_url,
                l.video_url, l.thumbnail_url, "mark_completed")

\* worker.py 420-424
ThumbDecide(w, l) ==
  IF l.thumbnail_url # NoLoc /\ l.step_index >= step_order("thumbnail")
  THEN Completion(w, l)
  ELSE Upd(w, l, "processing", "thumbnail", NoLoc, NoLoc, NoLoc, NoLoc, "generate_thumbnail")

\* worker.py 403-418: video_dimensions is never None here (worker.py 207-211 and 219
\* give it a value in both modes), so nothing is downloaded to probe the video
ThumbSection(w, l) ==
  IF l.subtitles_url = NoLoc \/ l.video_url = NoLoc
  THEN Raise(w, l, "Missing uploaded assets for completion")
  ELSE ThumbDecide(w, l)

\* worker.py 207-228, 278-292
ModeSection(w, l0) ==
  LET ready == l0.subtitles_url # NoLoc /\ l0.video_url # NoLoc
               /\ l0.step_index >= step_order("assets_uploaded")
      l == [l0 EXCEPT !.assets_ready = ready]
  IN  IF ready THEN ThumbSection(w, l)
      ELSE IF l.job.video_mode = "generated_images"
           THEN Upd(w, l, "processing", "images", NoLoc, NoLoc, NoLoc, NoLoc, "enhance_prompts")
           ELSE Upd(w, l, "processing", "video_dimensions", NoLoc, NoLoc, NoLoc, NoLoc,
                    "download_video")

\* worker.py 197-205
AfterVoice(w, l) ==
  IF l.voice_url # NoLoc /\ l.step_index < step_order("voiceover_webhooked")
  THEN UNCHANGED << job_statuses, db >> /\ Goto(w, l, "send_voiceover_uploaded")
  ELSE ModeSection(w, l)

\* worker.py 179-184 (tts_service.py 40-45: only a missing sentence file is synthesized)
SentenceCheck(w, l, dir) ==
  IF "sentence_001.wav" \notin dir
  THEN UNCHANGED << job_statuses, db >> /\ Goto(w, l, "regenerate_sentence_audio")
  ELSE AfterVoice(w, l)

\* worker.py 132-156: the first of the reconciling updates, from the k-th on, that applies
Prelude(w, l, k) ==
  IF k <= 1 /\ l.voice_url # NoLoc /\ l.step_index < step_order("voiceover_uploaded")
  THEN Upd(w, l, "processing", "voiceover_uploaded", l.voice_url, NoLoc, NoLoc, NoLoc,
           "reconcile_voice")
  ELSE IF k <= 2 /\ l.subtitles_url # NoLoc /\ l.video_url # NoLoc
          /\ l.step_index < step_order("assets_uploaded")
  THEN Upd(w, l, "processing", "assets_uploaded", l.voice_url, l.subtitles_url,
           l.video_url, l.thumbnail_url, "reconcile_assets")
  ELSE IF k <= 3 /\ l.thumbnail_url # NoLoc /\ l.step_index < step_order("thumbnail")
  THEN Upd(w, l, "processing", "thumbnail", NoLoc, NoLoc, NoLoc, l.thumbnail_url,
           "reconcile_thumbnail")
  ELSE Upd(w, l, "processing", "processing", NoLoc, NoLoc, NoLoc, NoLoc, "mark_processing")

\* a run that starts from the stored step but does not read the recorded locators
StartLocalsWithoutLocators(job, st) ==
  [IdleLocals EXCEPT
     !.job = job,
     !.step_name = IF st # NoRow /\ st.step # None THEN st.step ELSE "",
     !.step_index = IF st # NoRow /\ st.step # None THEN step_order(st.step) ELSE 0]

\* worker.py 103-114: the locals read from the job's record
StartLocals(job, st) ==
  [IdleLocals EXCEPT
     !.job = job,
     !.step_name = IF st # NoRow /\ st.step # None THEN st.step ELSE "",
     !.step_index = IF st # NoRow /\ st.step # None THEN step_order(st.step) ELSE 0,
     !.voice_url = IF st # NoRow THEN st.voice_url ELSE NoLoc,
     !.subtitles_url = IF st # NoRow THEN st.subtitles_url ELSE NoLoc,
     !.video_url = IF st # NoRow THEN st.video_url ELSE NoLoc,
     !.thumbnail_url = IF st # NoRow THEN st.thumbnail_url ELSE NoLoc]


\* ------------------------------------------------------------ worker
InProcessJob(w) == wk[w].pc \notin {"idle", "get_next_job"}

\* a worker loop that enters without waiting for a free permit
AcquireWithoutPermit(w) ==
  /\ alive /\ wk[w].pc = "idle"
  /\ semaphore' = semaphore - 1
  /\ wk' = [wk EXCEPT ![w].pc = "get_next_job"]
  /\ UNCHANGED << alive, env, db, job_statuses, job_queue, requeue_calls, files >>

\* worker.py 553: async with job_manager.semaphore
Acquire(w) ==
  /\ alive /\ wk[w].pc = "idle" /\ semaphore > 0
  /\ semaphore' = semaphore - 1
  /\ wk' = [wk EXCEPT ![w].pc = "get_next_job"]
  /\ UNCHANGED << alive, env, db, job_statuses, job_queue, requeue_calls, files >>

\* worker.py 555-559, 69-156: get_next_job returns, process_job runs to its first await
GetNextJob(w) ==
  /\ alive /\ wk[w].pc = "get_next_job" /\ job_queue # << >>
  /\ LET job == Head(job_queue)
         j == job.job_id
         st == job_statuses[j]
     IN  /\ job_queue' = Tail(job_queue)
         /\ IF st # NoRow /\ st.status = "completed"
            THEN /\ LeaveProcessJob(w, j, FALSE)
                 /\ UNCHANGED << job_statuses, db >>
            ELSE /\ Prelude(w, StartLocals(job, st), 1)
                 /\ UNCHANGED << files, semaphore >>
  /\ UNCHANGED << alive, env, requeue_calls >>

\* worker.py 69-72, 553-567: get_next_job returns and job_dir.mkdir raises (disk full,
\* directory not writable) before the try of process_job is entered: the exception
\* leaves process_job and the async with, which releases the permit; the except of
\* worker logs it and sleeps, then the loop starts again. Nothing is written for
\* the job
MkdirRaises(w) ==
  /\ alive /\ wk[w].pc = "get_next_job" /\ job_queue # << >>
  /\ job_queue' = Tail(job_queue)
  /\ semaphore' = semaphore + 1
  /\ wk' = [wk EXCEPT ![w] = IdleLocals]
  /\ UNCHANGED << alive, env, db, job_statuses, requeue_calls, files >>

\* what every step of process_job leaves alone
Frame == UNCHANGED << alive, env, job_queue, semaphore, requeue_calls >>

\* worker.py 139-160: a status write of the prelude returns and the next one is made
MarkProcessing(w) ==
  LET l == wk[w] IN
  /\ alive
  /\ l.pc \in {"reconcile_voice", "reconcile_assets", "reconcile_thumbnail",
               "mark_processing"}
  /\ IF l.pc = "mark_processing"
     THEN Upd(w, l, "processing", "script", NoLoc, NoLoc, NoLoc, NoLoc, "mark_script")
     ELSE Prelude(w, l, CASE l.pc = "reconcile_voice" -> 2
                          [] l.pc = "reconcile_assets" -> 3
                          [] OTHER -> 4)
  /\ UNCHANGED files /\ Frame

\* worker.py 161-171
MarkScript(w) ==
  LET l == wk[w] IN
  /\ alive /\ l.pc = "mark_script"
  /\ Upd(w, l, "processing", "voiceover", NoLoc, NoLoc, NoLoc, NoLoc, "mark_voiceover")
  /\ UNCHANGED files /\ Frame

\* tts_service.py 49-53: voice.wav is concatenated unless it is cached
Concatenate(dir) == dir \cup {"voice.wav"}

\* worker.py 173-189 (tts_service.py 39-47)
HandleVoiceover(w) ==
  LET l == wk[w]
      dir == files[l.job.job_id]
  IN
  /\ alive /\ l.pc = "mark_voiceover"
  /\ IF l.voice_url # NoLoc /\ l.step_index >= step_order("voiceover_uploaded")
     THEN /\ IF "voice.wav" \notin dir
             THEN UNCHANGED << job_statuses, db >> /\ Goto(w, l, "download_voiceover")
             ELSE SentenceCheck(w, l, dir)
          /\ UNCHANGED files
     ELSE /\ UNCHANGED << job_statuses, db >>
          /\ IF "sentence_001.wav" \notin dir
             THEN Goto(w, l, "generate_sentence_audio") /\ UNCHANGED files
             ELSE /\ Goto(w, l, "upload_voice")
                  /\ files' = [files EXCEPT ![l.job.job_id] = Concatenate(dir)]
  /\ Frame

\* tts_service.py 45-56, worker.py 187-189: the sentence is synthesized
GenerateSentenceAudio(w) ==
  LET l == wk[w]
      j == l.job.job_id
  IN
  /\ alive /\ l.pc = "generate_sentence_audio"
  /\ files' = [files EXCEPT ![j] = Concatenate(files[j] \cup {"sentence_001.wav"})]
  /\ Goto(w, l, "upload_voice")
  /\ UNCHANGED << job_statuses, db >> /\ Frame

\* worker.py 189-194 (s3_uploader.py 189-190: a missing file raises)
UploadVoice(w) ==
  LET l == wk[w]
      j == l.job.job_id
  IN
  /\ alive /\ l.pc = "upload_voice"
  /\ IF "voice.wav" \notin files[j]
     THEN Raise(w, l, "upload_voice")
     ELSE Upd(w, [l EXCEPT !.voice_url = upload_voice(j)], "processing",
              "voiceover_uploaded", upload_voice(j), NoLoc, NoLoc, NoLoc,
              "mark_voiceover_uploaded")
  /\ UNCHANGED files /\ Frame

\* worker.py 195-199
VoiceoverUploaded(w) ==
  LET l == wk[w] IN
  /\ alive /\ l.pc = "mark_voiceover_uploaded"
  /\ AfterVoice(w, [l EXCEPT !.step_index = step_order("voiceover_uploaded")])
  /\ UNCHANGED files /\ Frame

\* worker.py 38-59, 177-184
DownloadVoiceover(w) ==
  LET l == wk[w]
      j == l.job.job_id
  IN
  /\ alive /\ l.pc = "download_voiceover"
  /\ files' = [files EXCEPT ![j] = @ \cup {"voice.wav"}]
  /\ SentenceCheck(w, l, files[j])
  /\ Frame

\* worker.py 184 (tts_service.py 45-56)
RegenerateSentenceAudio(w) ==
  LET l == wk[w]
      j == l.job.job_id
  IN
  /\ alive /\ l.pc = "regenerate_sentence_audio"
  /\ files' = [files EXCEPT ![j] = Concatenate(files[j] \cup {"sentence_001.wav"})]
  /\ AfterVoice(w, l)
  /\ Frame

\* worker.py 199-204
SendVoiceoverUploaded(w) ==
  LET l == wk[w] IN
  /\ alive /\ l.pc = "send_voiceover_uploaded"
  /\ \E delivered \in Deliveries :
       IF _send_webhook(delivered) = "raised"
       THEN Raise(w, l, "send_voiceover_uploaded")
       ELSE Upd(w, l, "processing", "voiceover_webhooked", l.voice_url, NoLoc, NoLoc,
                NoLoc, "mark_voiceover_webhooked")
  /\ UNCHANGED files /\ Frame

\* worker.py 205-228, 278-292
VoiceoverWebhooked(w) ==
  LET l == wk[w] IN
  /\ alive /\ l.pc = "mark_voiceover_webhooked"
  /\ ModeSection(w, [l EXCEPT !.step_index = step_order("voiceover_webhooked")])
  /\ UNCHANGED files /\ Frame


\* worker.py 223
EnhancePrompts(w) ==
  LET l == wk[w] IN
  /\ alive /\ l.pc = "enhance_prompts"
  /\ Goto(w, l, "generate_images_batch")
  /\ UNCHANGED << job_statuses, db, files >> /\ Frame

\* worker.py 224-277 (ai_thumbnail_service.py 81-125: a cached image is returned as it
\* is, a failed generation is dropped from the list); then update_job_payload
GenerateImagesBatch(w) ==
  LET l == wk[w]
      j == l.job.job_id
  IN
  /\ alive /\ l.pc = "generate_images_batch"
  /\ \E generated \in BOOLEAN :
       LET got == generated \/ "image_0.jpg" \in files[j] IN
       /\ files' = IF got THEN [files EXCEPT ![j] = @ \cup {"image_0.jpg"}] ELSE files
       /\ Goto(w, [l EXCEPT !.image_paths = got], "update_job_payload")
  /\ UNCHANGED << job_statuses, db >> /\ Frame

\* worker.py 277, 290-292
UpdateJobPayload(w) ==
  LET l == wk[w] IN
  /\ alive /\ l.pc = "update_job_payload"
  /\ Upd(w, l, "processing", "subtitles", NoLoc, NoLoc, NoLoc, NoLoc, "generate_subtitles")
  /\ UNCHANGED files /\ Frame

\* worker.py 282-292 (video_renderer.py 387-390: a cached base video is not downloaded)
DownloadVideo(w) ==
  LET l == wk[w]
      j == l.job.job_id
  IN
  /\ alive /\ l.pc = "download_video"
  /\ files' = [files EXCEPT ![j] = @ \cup {"base.mp4"}]
  /\ Upd(w, l, "processing", "subtitles", NoLoc, NoLoc, NoLoc, NoLoc, "generate_subtitles")
  /\ Frame

\* worker.py 295-325
GenerateSubtitles(w) ==
  LET l == wk[w]
      j == l.job.job_id
  IN
  /\ alive /\ l.pc = "generate_subtitles"
  /\ files' = [files EXCEPT ![j] = @ \cup {"subs.ass"}]
  /\ Upd(w, l, "processing", "mix_audio", NoLoc, NoLoc, NoLoc, NoLoc, "mark_mix_audio")
  /\ Frame

\* worker.py 326-359 (audio_mixer.py 49-51: no music, the voice file is the mix)
MarkMixAudio(w) ==
  LET l == wk[w] IN
  /\ alive /\ l.pc = "mark_mix_audio"
  /\ Upd(w, l, "processing", "render_video", NoLoc, NoLoc, NoLoc, NoLoc, "render_video")
  /\ UNCHANGED files /\ Frame

\* worker.py 360-391 (video_renderer.py 27-88)
RenderVideo(w) ==
  LET l == wk[w]
      j == l.job.job_id
  IN
  /\ alive /\ l.pc = "render_video"
  /\ IF l.job.video_mode = "generated_images" /\ ~l.image_paths
     THEN Raise(w, l, "Missing images/durations for generated_images mode")
          /\ UNCHANGED files
     ELSE /\ files' = [files EXCEPT ![j] = @ \cup {"final.mp4"}]
          /\ Goto(w, [l EXCEPT !.final_video = TRUE], "upload_subtitle")
          /\ UNCHANGED << job_statuses, db >>
  /\ Frame

\* worker.py 391-392
UploadSubtitle(w) ==
  LET l == wk[w]
      j == l.job.job_id
  IN
  /\ alive /\ l.pc = "upload_subtitle"
  /\ IF "subs.ass" \notin files[j]
     THEN Raise(w, l, "upload_subtitle")
     ELSE /\ Goto(w, [l EXCEPT !.subtitles_url = upload_subtitle(j)], "upload_video")
          /\ UNCHANGED << job_statuses, db >>
  /\ UNCHANGED files /\ Frame

\* worker.py 392-400
UploadVideo(w) ==
  LET l == wk[w]
      j == l.job.job_id
  IN
  /\ alive /\ l.pc = "upload_video"
  /\ IF "final.mp4" \notin files[j]
     THEN Raise(w, l, "upload_video")
     ELSE Upd(w, [l EXCEPT !.video_url = upload_video(j)], "processing", "assets_uploaded",
              l.voice_url, l.subtitles_url, upload_video(j), l.thumbnail_url,
              "mark_assets_uploaded")
  /\ UNCHANGED files /\ Frame

\* worker.py 401-424
AssetsUploaded(w) ==
  LET l == wk[w] IN
  /\ alive /\ l.pc = "mark_assets_uploaded"
  /\ ThumbSection(w, [l EXCEPT !.step_index = step_order("assets_uploaded")])
  /\ UNCHANGED files /\ Frame

\* a thumbnail section without its own try/except: the exception reaches the except
\* block of process_job
GenerateThumbnailFatal(w) ==
  LET l == wk[w]
      j == l.job.job_id
  IN
  /\ alive /\ l.pc = "generate_thumbnail"
  /\ \E ok \in BOOLEAN :
       IF ok /\ (l.final_video => "final.mp4" \in files[j])
       THEN /\ files' = [files EXCEPT ![j] = @ \cup {"thumbnail.jpg"}
                                   \cup (IF l.final_video THEN {} ELSE {"base.mp4"})]
            /\ Goto(w, [l EXCEPT !.final_video = TRUE], "upload_thumbnail")
            /\ UNCHANGED << job_statuses, db >>
       ELSE /\ Raise(w, l, "generate_thumbnail")
            /\ UNCHANGED files
  /\ Frame

\* worker.py 425-440, 448-449 (thumbnail_service.py 28-45): the video is downloaded
\* first when this run did not render it; a failure is logged and swallowed
GenerateThumbnail(w) ==
  LET l == wk[w]
      j == l.job.job_id
  IN
  /\ alive /\ l.pc = "generate_thumbnail"
  /\ \E ok \in BOOLEAN :
       IF ok /\ (l.final_video => "final.mp4" \in files[j])
       THEN /\ files' = [files EXCEPT ![j] = @ \cup {"thumbnail.jpg"}
                                   \cup (IF l.final_video THEN {} ELSE {"base.mp4"})]
            /\ Goto(w, [l EXCEPT !.final_video = TRUE], "upload_thumbnail")
            /\ UNCHANGED << job_statuses, db >>
       ELSE /\ Completion(w, l)
            /\ UNCHANGED files
  /\ Frame

\* worker.py 440-449
UploadThumbnail(w) ==
  LET l == wk[w]
      j == l.job.job_id
  IN
  /\ alive /\ l.pc = "upload_thumbnail"
  /\ \E ok \in BOOLEAN :
       IF ok /\ "thumbnail.jpg" \in files[j]
       THEN Upd(w, [l EXCEPT !.thumbnail_url = upload_thumbnail(j)], "processing",
                "thumbnail", NoLoc, NoLoc, NoLoc, upload_thumbnail(j),
                "mark_thumbnail_uploaded")
       ELSE Completion(w, l)
  /\ UNCHANGED files /\ Frame

\* worker.py 446, 473-497
ThumbnailUploaded(w) ==
  LET l == wk[w] IN
  /\ alive /\ l.pc = "mark_thumbnail_uploaded"
  /\ Completion(w, [l EXCEPT !.step_index = step_order("thumbnail")])
  /\ UNCHANGED files /\ Frame

\* worker.py 476-488
SendVideoCompleted(w) ==
  LET l == wk[w] IN
  /\ alive /\ l.pc = "send_video_completed"
  /\ \E delivered \in Deliveries :
       IF _send_webhook(delivered) = "raised"
       THEN Raise(w, l, "send_video_completed")
       ELSE Upd(w, l, "processing", "video_completed", NoLoc, NoLoc, NoLoc, NoLoc,
                "mark_video_completed")
  /\ UNCHANGED files /\ Frame

\* worker.py 490-497
VideoCompleted(w) ==
  LET l == wk[w] IN
  /\ alive /\ l.pc = "mark_video_completed"
  /\ Upd(w, l, "completed", "completed", l.voice_url, l.subtitles_url, l.video_url,
         l.thumbnail_url, "mark_completed")
  /\ UNCHANGED files /\ Frame

\* worker.py 498, 533-535, then the loop of worker (550-553)
Completed(w) ==
  LET l == wk[w] IN
  /\ alive /\ l.pc = "mark_completed"
  /\ LeaveProcessJob(w, l.job.job_id, TRUE)
  /\ UNCHANGED << alive, env, db, job_statuses, job_queue, requeue_calls >>

\* the awaited calls whose exception reaches the except block of process_job
FailingCalls ==
  {"generate_sentence_audio", "regenerate_sentence_audio", "download_voiceover",
   "upload_voice", "enhance_prompts", "download_video", "generate_subtitles",
   "render_video", "upload_subtitle", "upload_video"}

\* worker.py 500-503: a collaborator call raises; error_msg names the call
CollaboratorFails(w) ==
  LET l == wk[w] IN
  /\ alive /\ l.pc \in FailingCalls
  /\ Raise(w, l, l.pc)
  /\ UNCHANGED files /\ Frame

\* worker.py 505-537: the failure webhook (its outcome is ignored), the cleanup, and
\* the return to the loop of worker
FailureHandler(w) ==
  LET l == wk[w] IN
  /\ alive /\ l.pc = "failed"
  /\ LeaveProcessJob(w, l.job.job_id, FALSE)
  /\ UNCHANGED << alive, env, db, job_statuses, job_queue, requeue_calls >>

\* ------------------------------------------------------ the job manager
\* routes.py 230: job_id = str(uuid.uuid4()), a fresh id, here the next unused number
NewJobId == Cardinality({i \in Jobs : db[i] # NoRow \/ i \in responses}) + 1

\* job_manager.py 156-176: add_job awaited for a request whose job_id is fresh
add_job ==
  LET j == NewJobId
      mode == Head(requests)
  IN
  /\ alive /\ requests # << >> /\ j \in Jobs
  /\ requests' = Tail(requests)
  /\ job_statuses' = [job_statuses EXCEPT ![j] = NewStatus]
  /\ db' = [db EXCEPT ![j] = NewRow(mode)]
  /\ job_queue' = Append(job_queue, [job_id |-> j, video_mode |-> mode, via |-> "add_job"])
  /\ UNCHANGED << alive, max_concurrent_jobs, webhook_up, requeues_left, responses,
                  semaphore, requeue_calls, wk, files, row_writes, plan, send, short >>

\* job_manager.py 156-176, 291-327: add_job awaited with a job_id that is already
\* stored. The record is replaced by a new JobStatus (163-169) before the INSERT, which
\* raises sqlite3.IntegrityError on the PRIMARY KEY (job_manager.py 75); put_nowait is
\* not reached
add_job_existing(j) ==
  /\ alive /\ requests # << >> /\ db[j] # NoRow
  /\ requests' = Tail(requests)
  /\ job_statuses' = [job_statuses EXCEPT ![j] = NewStatus]
  /\ UNCHANGED << alive, max_concurrent_jobs, webhook_up, requeues_left, responses, db,
                  job_queue, semaphore, requeue_calls, wk, files, row_writes, plan, send, short >>

\* routes.py 220-277: POST /render. add_job is a coroutine function and line 269
\* calls it without await: the coroutine object is created and dropped, its body
\* never runs. The handler logs the queue size and returns the job_id with status
\* queued
render_video ==
  LET j == NewJobId IN
  /\ alive /\ requests # << >> /\ j \in Jobs
  /\ requests' = Tail(requests)
  /\ responses' = responses \cup {j}
  /\ UNCHANGED << alive, max_concurrent_jobs, webhook_up, requeues_left, db, job_statuses,
                  job_queue, semaphore, requeue_calls, wk, files, row_writes, plan, send, short >>

\* job_manager.py 190-201: the checks pass and the call awaits _fetch_job_payload
RequeueJobCall(j) ==
  /\ alive /\ job_statuses[j] # NoRow
  /\ job_statuses[j].status \notin {"completed", "queued", "processing"}
  /\ requeues_left > 0
  /\ requeues_left' = requeues_left - 1
  /\ requeue_calls' = [requeue_calls EXCEPT ![j] = @ + 1]
  /\ UNCHANGED << alive, max_concurrent_jobs, webhook_up, requests, responses, db,
                  job_statuses, job_queue, semaphore, wk, files, row_writes, plan, send, short >>

\* a requeue that puts the job in front of the waiting ones
RequeueJobResumeAtFront(j) ==
  /\ alive /\ requeue_calls[j] > 0 /\ db[j] # NoRow
  /\ requeue_calls' = [requeue_calls EXCEPT ![j] = @ - 1]
  /\ job_queue' = << [job_id |-> j, video_mode |-> db[j].payload, via |-> "requeue_job"] >>
                  \o job_queue
  /\ update_job_status(j, "queued", None, NoLoc, NoLoc, NoLoc, NoLoc, None)
  /\ UNCHANGED << alive, env, semaphore, wk, files >>

\* job_manager.py 201-207, 387-399
RequeueJobResume(j) ==
  /\ alive /\ requeue_calls[j] > 0 /\ db[j] # NoRow
  /\ requeue_calls' = [requeue_calls EXCEPT ![j] = @ - 1]
  /\ job_queue' = Append(job_queue,
                         [job_id |-> j, video_mode |-> db[j].payload, via |-> "requeue_job"])
  /\ update_job_status(j, "queued", None, NoLoc, NoLoc, NoLoc, NoLoc, None)
  /\ UNCHANGED << alive, env, semaphore, wk, files >>

\* the rows a SELECT returns, as a sequence in job_id order
RECURSIVE RowsFrom(_, _)
RowsFrom(rows, j) ==
  IF j > NumJobs THEN << >>
  ELSE (IF rows[j] # NoRow THEN << j >> ELSE << >>) \o RowsFrom(rows, j + 1)

\* job_manager.py 135-154: the entries put on the queue
PendingJobs(rows) ==
  LET all == RowsFrom(rows, 1)
      pending == SelectSeq(all, LAMBDA j : rows[j].status \in {"queued", "processing"})
  IN  [i \in 1..Len(pending) |->
         [job_id |-> pending[i], video_mode |-> rows[pending[i]].payload,
          via |-> "restart"]]

\* a start that enqueues the pending jobs but leaves their rows as they were
_requeue_pending_jobs_without_reset(rows) == rows

\* job_manager.py 147-152: a row found processing is set to queued
_requeue_pending_jobs(rows) ==
  [j \in Jobs |-> IF rows[j] # NoRow /\ rows[j].status = "processing"
                  THEN _update_status_row(rows, j, "queued", None, NoLoc, NoLoc, NoLoc,
                                          NoLoc, None, FALSE)[j]
                  ELSE rows[j]]

\* a load that builds each JobStatus from job_id, status, step and error only
_load_existing_jobs_without_locators(rows) ==
  [j \in Jobs |-> IF rows[j] = NoRow THEN NoRow
                  ELSE [status |-> rows[j].status, step |-> rows[j].step,
                        voice_url |-> NoLoc, subtitles_url |-> NoLoc,
                        video_url |-> NoLoc, thumbnail_url |-> NoLoc,
                        error |-> rows[j].error]]

\* job_manager.py 98-131: the JobStatus built from a row
_load_existing_jobs(rows) ==
  [j \in Jobs |-> IF rows[j] = NoRow THEN NoRow
                  ELSE [status |-> rows[j].status, step |-> rows[j].step,
                        voice_url |-> rows[j].voice_url,
                        subtitles_url |-> rows[j].subtitles_url,
                        video_url |-> rows[j].video_url,
                        thumbnail_url |-> rows[j].thumbnail_url,
                        error |-> rows[j].error]]

\* the process dies (kill, power loss): memory is lost, the table and the disk stay
Crash ==
  /\ alive
  /\ alive' = FALSE
  /\ job_statuses' = [j \in Jobs |-> NoRow]
  /\ job_queue' = << >>
  /\ semaphore' = max_concurrent_jobs
  /\ requeue_calls' = [j \in Jobs |-> 0]
  /\ wk' = [w \in Workers |-> IdleLocals]
  /\ UNCHANGED << env, db, files >>

\* the jobs that some worker is inside process_job for
InFlight == {wk[w].job.job_id : w \in {v \in Workers : InProcessJob(v)}}

\* a shutdown under which a cancellation is handled like any other exception of the
\* job: the except block of process_job marks the job failed
shutdown_event_marking_failed ==
  /\ alive
  /\ alive' = FALSE
  /\ db' = [j \in Jobs |-> IF j \in InFlight
                           THEN _update_status_row(db, j, "failed", None, NoLoc, NoLoc,
                                                   NoLoc, NoLoc, "CancelledError", FALSE)[j]
                           ELSE db[j]]
  /\ files' = [j \in Jobs |-> IF j \in InFlight /\ CLEANUP_ON_FAILURE THEN {} ELSE files[j]]
  /\ job_statuses' = [j \in Jobs |-> NoRow]
  /\ job_queue' = << >>
  /\ semaphore' = max_concurrent_jobs
  /\ requeue_calls' = [j \in Jobs |-> 0]
  /\ wk' = [w \in Workers |-> IdleLocals]
  /\ UNCHANGED env

\* main.py 73-89, worker.py 533-537, 563-564: every worker task is cancelled.
\* CancelledError is raised at the await the task is suspended in; it is not an
\* Exception, so the except block of process_job (500) is skipped and nothing is
\* written for the job; the finally block removes the job directory (job_succeeded is
\* still False) and worker breaks out of its loop. The database is closed and the
\* process ends: memory is lost, the table stays
shutdown_event ==
  /\ alive
  /\ alive' = FALSE
  /\ files' = [j \in Jobs |-> IF j \in InFlight /\ CLEANUP_ON_FAILURE THEN {} ELSE files[j]]
  /\ job_statuses' = [j \in Jobs |-> NoRow]
  /\ job_queue' = << >>
  /\ semaphore' = max_concurrent_jobs
  /\ requeue_calls' = [j \in Jobs |-> 0]
  /\ wk' = [w \in Workers |-> IdleLocals]
  /\ UNCHANGED << env, db >>

\* main.py 58-70: JobManager.initialize (job_manager.py 65-154), then start_workers
startup_event ==
  /\ ~alive
  /\ alive' = TRUE
  /\ db' = _requeue_pending_jobs(db)
  /\ job_statuses' = _load_existing_jobs(_requeue_pending_jobs(db))
  /\ job_queue' = PendingJobs(db)
  /\ UNCHANGED << env, semaphore, requeue_calls, wk, files >>

\* ------------------------------------------------------ specifications
\* job_manager.py 56-63, worker.py 570-579: the state after construction, for a
\* setting of max_concurrent_jobs, a webhook endpoint and a workload
InitService(n, up, reqs, r) ==
  /\ alive = TRUE
  /\ max_concurrent_jobs = n
  /\ webhook_up = up
  /\ requests = reqs
  /\ requeues_left = r
  /\ responses = {}
  /\ db = [j \in Jobs |-> NoRow]
  /\ job_statuses = [j \in Jobs |-> NoRow]
  /\ job_queue = << >>
  /\ semaphore = n
  /\ requeue_calls = [j \in Jobs |-> 0]
  /\ wk = [w \in Workers |-> IdleLocals]
  /\ files = [j \in Jobs |-> {}]
  /\ row_writes = << >>

\* the service of the pipeline specifications: no timing plan is followed
InitWith(n, up, reqs, r) == InitService(n, up, reqs, r) /\ plan = NoPlan /\ send = NoPlan /\ short = NoPlan

WorkerStep(w) ==
  \/ Acquire(w) \/ GetNextJob(w) \/ MarkProcessing(w) \/ MarkScript(w)
  \/ HandleVoiceover(w) \/ GenerateSentenceAudio(w) \/ UploadVoice(w)
  \/ VoiceoverUploaded(w) \/ DownloadVoiceover(w) \/ RegenerateSentenceAudio(w)
  \/ SendVoiceoverUploaded(w) \/ VoiceoverWebhooked(w) \/ EnhancePrompts(w)
  \/ GenerateImagesBatch(w) \/ UpdateJobPayload(w) \/ DownloadVideo(w)
  \/ GenerateSubtitles(w) \/ MarkMixAudio(w) \/ RenderVideo(w) \/ UploadSubtitle(w)
  \/ UploadVideo(w) \/ AssetsUploaded(w)
  \/ GenerateThumbnail(w) \/ UploadThumbnail(w) \/ ThumbnailUploaded(w)
  \/ SendVideoCompleted(w) \/ VideoCompleted(w) \/ Completed(w) \/ FailureHandler(w)

Next ==
  \/ \E w \in Workers : WorkerStep(w)
  \/ \E w \in Workers : CollaboratorFails(w)
  \/ \E w \in Workers : MkdirRaises(w)
  \/ add_job
  \/ render_video
  \/ \E j \in Jobs : RequeueJobCall(j)
  \/ \E j \in Jobs : RequeueJobResume(j)
  \/ Crash
  \/ shutdown_event
  \/ startup_event

\* one request of either mode, any number of permits, a webhook endpoint that is up or
\* down, MaxRequeueCalls calls of requeue_job
Init ==
  \E m \in Modes, up \in BOOLEAN, n \in 1..NumWorkers :
    InitWith(n, up, << m >>, MaxRequeueCalls)

Spec == Init /\ [][Next]_vars

\* NumJobs requests of alternating modes, one permit for NumWorkers worker tasks, one
\* call of requeue_job
PoolRequests == [i \in 1..NumJobs |-> IF i % 2 = 1 THEN "generated_images" ELSE "base_video"]

InitPool == InitWith(1, TRUE, PoolRequests, 1)

SpecPool == InitPool /\ [][Next]_vars


\* the service while it stays up: every step of Next but the death of the process
\* and the start that follows it
NextLive ==
  \/ \E w \in Workers : WorkerStep(w)
  \/ \E w \in Workers : CollaboratorFails(w)
  \/ \E w \in Workers : MkdirRaises(w)
  \/ add_job
  \/ render_video
  \/ \E j \in Jobs : RequeueJobCall(j)
  \/ \E j \in Jobs : RequeueJobResume(j)

\* the event loop runs every worker task that can continue, and every awaited
\* collaborator call returns or raises
WorkersRun ==
  \A w \in Workers : WF_vars(WorkerStep(w) \/ CollaboratorFails(w) \/ MkdirRaises(w))

\* the pool workload on a service that is never shut down, with fair worker tasks
SpecLive == InitPool /\ [][NextLive]_vars /\ WorkersRun


\* the service while it stays up, with callers of add_job that may reuse a job_id
NextDuplicate ==
  \/ NextLive
  \/ \E j \in Jobs : add_job_existing(j)

SpecDuplicate == InitPool /\ [][NextDuplicate]_vars

\* ------------------------------------------------------------ claims
\* the rank of a stored step; a job without a step has rank 0 (worker.py 109-110)
StepRank(rec) == IF rec = NoRow \/ rec.step = None THEN 0 ELSE step_order(rec.step)

\* C1: for every job the stored step never decreases in the canonical order, in the
\* in-memory record and in the jobs row, whatever runs, fails, is requeued or restarts.
C1_StepNeverDecreases ==
  [][\A j \in Jobs :
       /\ db[j] # NoRow => StepRank(db'[j]) >= StepRank(db[j])
       /\ (job_statuses[j] # NoRow /\ job_statuses'[j] # NoRow)
            => StepRank(job_statuses'[j]) >= StepRank(job_statuses[j])]_vars

\* job_manager.py 287-289
get_active_jobs_count ==
  Cardinality({j \in Jobs : job_statuses[j] # NoRow /\ job_statuses[j].status = "processing"})

\* C2: the number of jobs whose status is processing never exceeds max_concurrent_jobs.
C2_ProcessingWithinLimit == get_active_jobs_count <= max_concurrent_jobs

\* C2 witness: the limit is reached while another job is queued and a worker task waits
\* for a permit.
C2_Witness ==
  /\ get_active_jobs_count = max_concurrent_jobs
  /\ semaphore = 0
  /\ job_queue # << >>
  /\ \E w \in Workers : wk[w].pc = "idle"
  /\ \E w \in Workers : InProcessJob(w)

\* C8: an update moves the stored step only to a strictly later one: a call whose step
\* is not later than the stored one (a stale worker's) leaves the stored step as it is.
C8_StepCompareAndSet ==
  [][\A j \in Jobs :
       (job_statuses[j] # NoRow /\ job_statuses'[j] # NoRow
        /\ job_statuses'[j].step # job_statuses[j].step)
         => StepRank(job_statuses'[j]) > StepRank(job_statuses[j])]_vars

\* C10: no two worker tasks are inside process_job with the same job_id at once.
C10_OneWorkerPerJob ==
  \A w1, w2 \in Workers :
    (w1 # w2 /\ InProcessJob(w1) /\ InProcessJob(w2))
      => wk[w1].job.job_id # wk[w2].job.job_id


\* the awaited calls that do the billed or heavy work of a step, with the rank of the
\* step they belong to (worker.py 170-228, 290-400)
CallStep(pc) ==
  CASE pc = "generate_sentence_audio" -> step_order("voiceover")
    [] pc = "regenerate_sentence_audio" -> step_order("voiceover")
    [] pc = "upload_voice" -> step_order("voiceover_uploaded")
    [] pc = "enhance_prompts" -> step_order("images")
    [] pc = "generate_subtitles" -> step_order("subtitles")
    [] pc = "render_video" -> step_order("render_video")
    [] pc = "upload_subtitle" -> step_order("assets_uploaded")
    [] pc = "upload_video" -> step_order("assets_uploaded")
    [] OTHER -> 0

\* the outputs of steps 1..k of a job are all there: its files in the job directory and
\* its locators in the record
OutputsExist(job, k) ==
  LET j == job.job_id
      rec == job_statuses[j]
  IN
  /\ rec # NoRow
  /\ k >= step_order("voiceover") => {"sentence_001.wav", "voice.wav"} \subseteq files[j]
  /\ k >= step_order("voiceover_uploaded") => rec.voice_url # NoLoc
  /\ (k >= step_order("images") /\ job.video_mode = "generated_images")
       => "image_0.jpg" \in files[j]
  /\ (k >= step_order("video_dimensions") /\ job.video_mode = "base_video")
       => "base.mp4" \in files[j]
  /\ k >= step_order("subtitles") => "subs.ass" \in files[j]
  /\ k >= step_order("render_video") => "final.mp4" \in files[j]
  /\ k >= step_order("assets_uploaded")
       => (rec.subtitles_url # NoLoc /\ rec.video_url # NoLoc)

\* C3: a run that started from stored step >= k, with the outputs of steps 1..k in
\* place, is never inside the collaborator call of one of the steps 1..k.
C3_NoRepeatedCollaboratorCall ==
  \A w \in Workers :
    LET l == wk[w]
        k == CallStep(l.pc)
    IN  ~(k > 0 /\ step_order(l.step_name) >= k /\ OutputsExist(l.job, k))

\* a run delivered by the restart, started from a stored step at or after the
\* voiceover_uploaded checkpoint
ResumedAfterVoiceUpload(w) ==
  /\ InProcessJob(w)
  /\ wk[w].job.via = "restart"
  /\ step_order(wk[w].step_name) >= step_order("voiceover_uploaded")

HasLocators(rec) ==
  rec.voice_url # NoLoc /\ rec.subtitles_url # NoLoc /\ rec.video_url # NoLoc

\* C5: with a webhook endpoint that fails every attempt, a notification never fails the
\* job: the run goes on to the next checkpoint with status processing and no error, and
\* a job that is completed has its voice, subtitle and video locators.
C5_WebhookFailureNeverFailsJob ==
  [][~webhook_up =>
       /\ \A w \in Workers :
            (wk[w].pc \in {"send_voiceover_uploaded", "send_video_completed"}
             /\ wk'[w].pc # wk[w].pc /\ alive')
              => /\ wk'[w].pc \in {"mark_voiceover_webhooked", "mark_video_completed"}
                 /\ job_statuses'[wk[w].job.job_id].status = "processing"
                 /\ job_statuses'[wk[w].job.job_id].error = None
       /\ \A j \in Jobs :
            (job_statuses'[j] # NoRow /\ job_statuses'[j].status = "completed")
              => HasLocators(job_statuses'[j])]_vars

\* C5 witness: the endpoint is down and a job is completed with its locators.
C5_Witness ==
  /\ ~webhook_up
  /\ \E j \in Jobs :
       /\ job_statuses[j] # NoRow
       /\ job_statuses[j].status = "completed"
       /\ HasLocators(job_statuses[j])

\* the calls made under a step marker written just before them, and that step
\* (worker.py 171-189, 222-223, 281-282, 292-323, 359-390)
MarkedCalls ==
  {"generate_sentence_audio", "enhance_prompts", "download_video", "generate_subtitles",
   "render_video"}

InProgressStep(call) ==
  CASE call = "generate_sentence_audio" -> "voiceover"
    [] call = "enhance_prompts" -> "images"
    [] call = "download_video" -> "video_dimensions"
    [] call = "generate_subtitles" -> "subtitles"
    [] call = "render_video" -> "render_video"
    [] OTHER -> None

C7_AtMostOneStepRedone ==
  [][\A w \in Workers :
       LET l == wk'[w]
           j == l.job.job_id
       IN  (alive' /\ InProcessJob(w)' /\ l.job.via = "restart") =>
             /\ ~(l.pc = "render_video" /\ {"subs.ass", "final.mp4"} \subseteq files'[j])
             /\ \A f \in {"voice_url", "subtitles_url", "video_url", "thumbnail_url"} :
                  db[j][f] # NoLoc => db'[j][f] = db[j][f]
             /\ l.pc \in {"generate_thumbnail", "upload_thumbnail", "send_video_completed"}
                  => HasLocators(db'[j])]_vars

\* how many entries of a queue carry job j
Entries(queue, j) == Cardinality({i \in 1..Len(queue) : queue[i].job_id = j})

\* C9: the start of the service leaves every job stored as queued or processing in the
\* queue exactly once and with status queued in the record and in the row, and leaves
\* every other job out of the queue and as it was stored.
C9_StartupRequeuesPending ==
  [][(~alive /\ alive') =>
       \A j \in Jobs :
         IF db[j] # NoRow /\ db[j].status \in {"queued", "processing"}
         THEN /\ Entries(job_queue', j) = 1
              /\ db'[j].status = "queued"
              /\ job_statuses'[j].status = "queued"
         ELSE /\ Entries(job_queue', j) = 0
              /\ db'[j] = db[j]
              /\ db[j] # NoRow => job_statuses'[j].status = db[j].status]_vars

\* C9 witness: just after a start, one job is back in the queue and another, failed or
\* completed, is not.
C9_Witness ==
  /\ alive
  /\ \A w \in Workers : wk[w].pc = "idle"
  /\ \E j1, j2 \in Jobs :
       /\ Entries(job_queue, j1) = 1 /\ job_queue[1].via = "restart"
       /\ job_statuses[j1].status = "queued"
       /\ job_statuses[j2] # NoRow
       /\ job_statuses[j2].status \in {"failed", "completed"}
       /\ Entries(job_queue, j2) = 0

\* C11: while the process is alive the queue never holds two entries for the same
\* job_id, so no job is delivered twice, whatever the interleaving of add_job,
\* requeue_job calls and workers.
C11_NoDuplicateDelivery ==
  alive => \A j \in Jobs : Entries(job_queue, j) <= 1

\* the worker tasks that hold a permit of the semaphore: those past the async with
PermitHolders == {w \in Workers : wk[w].pc # "idle"}

\* C12: at most max_concurrent_jobs workers are inside process_job at the same
\* time, also when there are more worker tasks than permits, and permits are
\* conserved: the free permits plus the workers that hold one always add up to
\* max_concurrent_jobs, so every permit taken is released on every way out of
\* process_job.
C12_PermitsBoundJobsInFlight ==
  /\ Cardinality({w \in Workers : InProcessJob(w)}) <= max_concurrent_jobs
  /\ semaphore >= 0
  /\ semaphore + Cardinality(PermitHolders) = max_concurrent_jobs

\* C12 witness: more worker tasks than permits; one worker is inside process_job with
\* the only permit, a job waits in the queue, and the other worker waits for a permit
\* that was taken and released before (the job in flight is not the first run).
C12_Witness ==
  /\ alive /\ max_concurrent_jobs < NumWorkers /\ semaphore = 0
  /\ job_queue # << >>
  /\ \E w1, w2 \in Workers :
       /\ InProcessJob(w1) /\ wk[w1].pc \notin {"failed", "mark_completed"}
       /\ wk[w2].pc = "idle"
       /\ job_statuses[wk[w1].job.job_id].step # None
       /\ wk[w1].step_index > 0

\* C13: one job's failure never stalls the pool: every job that is in the queue is
\* eventually picked up and eventually reaches completed or failed, provided the
\* collaborator calls return or raise and the service is not shut down.
C13_QueuedJobReachesTerminal ==
  \A j \in Jobs :
    (Entries(job_queue, j) > 0) ~> (job_statuses[j].status \in {"completed", "failed"})

\* worker w enters or leaves the except/finally of process_job in this step
FailureStep(w) ==
  /\ alive /\ alive'
  /\ \/ wk[w].pc # "failed" /\ wk'[w].pc = "failed"
     \/ wk[w].pc = "failed" /\ wk'[w].pc # "failed"

\* the job whose failure FailureStep(w) handles
FailingJob(w) == IF wk[w].pc = "failed" THEN wk[w].job.job_id ELSE wk'[w].job.job_id

\* C14: a failure while processing job A changes no field of the record or of the
\* row of any other job B and leaves B's entries in the queue as they were.
C14_FailureLeavesOtherJobsAlone ==
  [][\A w \in Workers :
       FailureStep(w) =>
         \A b \in Jobs \ {FailingJob(w)} :
           /\ job_statuses'[b] = job_statuses[b]
           /\ db'[b] = db[b]
           /\ Entries(job_queue', b) = Entries(job_queue, b)]_vars

\* C14 witness: job A has just been marked failed, its worker is still in the except
\* block, and another job B waits in the queue with its fresh record.
C14_Witness ==
  /\ alive
  /\ \E w \in Workers, b \in Jobs :
       /\ wk[w].pc = "failed" /\ wk[w].job.job_id # b
       /\ job_statuses[wk[w].job.job_id].status = "failed"
       /\ job_statuses[b] = NewStatus /\ db[b] # NoRow /\ db[b].status = "queued"
       /\ Entries(job_queue, b) = 1

\* the awaited calls that generate the narration, the subtitles and the video
FatalArtifactCalls ==
  {"generate_sentence_audio", "regenerate_sentence_audio", "generate_subtitles",
   "render_video"}

\* this step is the raise of the thumbnail generation call of worker w
ThumbnailRaises(w) == GenerateThumbnail(w) /\ wk'[w].pc # "upload_thumbnail"

\* this step is the raise of an artifact-generation call of worker w
ArtifactCallRaises(w) ==
  \/ CollaboratorFails(w) /\ wk[w].pc \in FatalArtifactCalls
  \/ ThumbnailRaises(w)

C16_SubmissionIsStoredAndQueued ==
  [][\A j \in Jobs :
       (j \in responses' /\ j \notin responses) =>
         /\ job_statuses'[j] = NewStatus
         /\ db'[j] # NoRow /\ db'[j].status = "queued" /\ db'[j].step = None
         /\ Entries(job_queue', j) >= 1]_vars

\* C17: add_job with a job_id that already exists leaves the existing job's record
\* and row (status, step, artifact locators, error) and the queue unchanged.
C17_DuplicateAddLeavesJobUnchanged ==
  [][\A j \in Jobs :
       add_job_existing(j) =>
         /\ job_statuses'[j] = job_statuses[j]
         /\ db'[j] = db[j]
         /\ job_queue' = job_queue]_vars

CompletedRecord(rec, j) ==
  (rec # NoRow /\ rec.status = "completed")
    => /\ rec.voice_url = upload_voice(j)
       /\ rec.subtitles_url = upload_subtitle(j)
       /\ rec.video_url = upload_video(j)
       /\ rec.thumbnail_url \in {NoLoc, upload_thumbnail(j)}

C19_CancelledJobStaysProcessingThenRequeued ==
  [][/\ shutdown_event =>
          \A j \in InFlight :
            /\ db'[j] = db[j]
            /\ db[j].status = "processing" => db'[j].error = None
     /\ (~alive /\ alive') =>
          \A j \in Jobs :
            (db[j] # NoRow /\ db[j].status = "processing") =>
              /\ db'[j].status = "queued" /\ job_statuses'[j].status = "queued"
              /\ db'[j].step = db[j].step /\ job_statuses'[j].step = db[j].step
              /\ db'[j].error = None
              /\ Entries(job_queue', j) = 1]_vars

\* C19 witness: the service is down, a job is stored as processing at a checkpoint
\* past its first step with no error, and its job directory has been removed by the
\* finally block of the cancelled run.
C19_Witness ==
  /\ ~alive
  /\ \E j \in Jobs :
       /\ db[j] # NoRow /\ db[j].status = "processing" /\ db[j].error = None
       /\ db[j].step = "render_video" /\ db[j].voice_url = upload_voice(j)
       /\ files[j] = {}

\* the awaits of a step: collaborator calls whose result is not yet persisted
StepCalls == FailingCalls \cup {"generate_images_batch", "generate_thumbnail", "upload_thumbnail"}

\* C20: the shutdown does not interrupt a step part-way: when the workers stop, no
\* worker is suspended inside a collaborator call of a step.
C20_ShutdownNeverInterruptsStep ==
  [][shutdown_event => \A w \in Workers : wk[w].pc \notin StepCalls]_vars


\* ------------------------------------------------ the store, await by await
\* update_job_status assigns the fields of the in-memory record (job_manager.py
\* 237-258, no await in between) and then awaits _update_status_row (260-270), which
\* awaits the UPDATE and its commit on the one aiosqlite connection (370-374). While
\* the call is suspended there, the event loop runs other tasks: another worker that
\* reads the record (worker.py 103, 508), requeue_job (job_manager.py 191), the queue
\* route (get_active_jobs_count), another update; or the process dies.

\* how many update_job_status calls can be suspended in _update_status_row at once
MaxRowWrites == 2

\* the update_job_status calls of the store specification: the ones process_job
\* makes for job j up to the upload of the voice (worker.py 116-130, 133-199) and the
\* one of its except block (worker.py 502)
UpdateCalls(j) ==
  {[job_id |-> j, status |-> "processing", step |-> sp, voice_url |-> v, error |-> None] :
      sp \in {None, "script", "voiceover_uploaded"}, v \in {NoLoc, upload_voice(j)}}
  \cup {[job_id |-> j, status |-> "failed", step |-> None, voice_url |-> NoLoc,
         error |-> "generate_sentence_audio"]}

\* job_manager.py 233-258 and the call at 260: the record has the new values, the
\* row update is awaited
update_job_status_assign(c) ==
  /\ alive /\ job_statuses[c.job_id] # NoRow
  /\ Len(row_writes) < MaxRowWrites
  /\ job_statuses' = [job_statuses EXCEPT
        ![c.job_id] = SetFields(@, c.status, c.step, c.voice_url, NoLoc, NoLoc, NoLoc,
                                c.error, ClearError(c.status, c.error))]
  /\ row_writes' = Append(row_writes, c)
  /\ UNCHANGED << alive, max_concurrent_jobs, webhook_up, requests, requeues_left,
                  responses, db, job_queue, semaphore, requeue_calls, wk, files, plan, send, short >>

\* job_manager.py 370-374: the UPDATE of the oldest suspended call and its commit
\* (the connection runs its statements in the order they were awaited)
_update_status_row_commit ==
  /\ alive /\ row_writes # << >>
  /\ LET c == Head(row_writes) IN
       db' = _update_status_row(db, c.job_id, c.status, c.step, c.voice_url, NoLoc, NoLoc,
                                NoLoc, c.error, ClearError(c.status, c.error))
  /\ row_writes' = Tail(row_writes)
  /\ UNCHANGED << alive, max_concurrent_jobs, webhook_up, requests, requeues_left,
                  responses, job_statuses, job_queue, semaphore, requeue_calls, wk, files,
                  plan, send, short >>

\* the process dies with calls suspended: memory and the uncommitted updates are lost
CrashInUpdate ==
  /\ alive
  /\ alive' = FALSE
  /\ job_statuses' = [j \in Jobs |-> NoRow]
  /\ job_queue' = << >>
  /\ row_writes' = << >>
  /\ UNCHANGED << max_concurrent_jobs, webhook_up, requests, requeues_left, responses, db,
                  semaphore, requeue_calls, wk, files, plan, send, short >>

NextStore ==
  \/ add_job
  \/ \E j \in Jobs : \E c \in UpdateCalls(j) : update_job_status_assign(c)
  \/ _update_status_row_commit
  \/ CrashInUpdate
  \/ startup_event

\* the store alone: NumJobs jobs are added and updated, no worker task runs
InitStore == InitWith(1, TRUE, PoolRequests, 0)

SpecStore == InitStore /\ [][NextStore]_vars

\* C21: the fields written by one store update call are never observably split: what
\* a status reader gets from the in-memory record is what a reload would get from
\* the durable row, at every point of the call
C21_UpdateNeverSplit ==
  alive => \A j \in Jobs :
             job_statuses[j] # NoRow => job_statuses[j] = _load_existing_jobs(db)[j]


\* ------------------------------------------------------ the timing plan
\* The timing computations of a generated_images job: the extended durations
\* (worker.py 230-264), the subtitle windows (subtitle_service.py 141-205), the target
\* duration and the gapped narration track (worker.py 330-357, tts_service.py 136-181)
\* and the crossfade chain (video_renderer.py 522-594). Time is counted in ticks of
\* a quarter millisecond, so that the conversions to whole milliseconds and to
\* centiseconds have something to drop; the sums of the code are taken exactly (the
\* rounding of a double is far below one tick). A fallback duration is a fraction:
\* the subtitle windows are kept as numerators over the common denominator den.

\* the most images of one job, and the most words of one sentence
MaxSegments == 3
MaxWords == 2

\* ticks in one millisecond
TicksPerMs == 4
Ms(x) == x * TicksPerMs

\* worker.py 231, 232; constants.py 17
lead_time == Ms(250)
linger_time == Ms(500)
VIDEO_CROSSFADE_DURATION == Ms(500)

\* the durations ffprobe can report for a sentence clip: one in each tier of the
\* adaptive buffer, the two tier borders, and two that are not whole milliseconds,
\* one of them a clip of a single tick
ClipDurations ==
  {1, Ms(1000), Ms(2000), Ms(2500) + 1, Ms(3000), Ms(4000), Ms(6000)}

\* the durations ffprobe can report for voice.wav: shorter and longer than the clips
VoiceDurations == {Ms(1500), Ms(9000)}

\* what the planner leaves alone: the service, its store and its worker tasks
pipeline == << alive, max_concurrent_jobs, webhook_up, requests, requeues_left, responses,
               db, job_statuses, job_queue, semaphore, requeue_calls, wk, files,
               row_writes, send, short >>

RECURSIVE SumTo(_, _)
\* sum(s[1..k])
SumTo(s, k) == IF k = 0 THEN 0 ELSE SumTo(s, k - 1) + s[k]

Max2(a, b) == IF a >= b THEN a ELSE b

\* worker.py 240-246: the measured duration of sentence_{i}.wav, 5.0 without the file
audio_duration(p, i) == IF p.exists[i] THEN p.audio[i] ELSE Ms(5000)

\* an adaptive buffer that grows with the duration
adaptive_buffer_growing(d) ==
  IF d < Ms(3000) THEN Ms(250) ELSE IF d < Ms(6000) THEN Ms(500) ELSE Ms(750)

\* worker.py 248-253
adaptive_buffer(d) ==
  IF d < Ms(3000) THEN Ms(750) ELSE IF d < Ms(6000) THEN Ms(500) ELSE Ms(250)

\* a display time that is the narration alone
extended_duration_audio_only(p, i) == audio_duration(p, i)

\* worker.py 255
extended_duration(p, i) ==
  audio_duration(p, i) + lead_time + adaptive_buffer(audio_duration(p, i)) + linger_time

\* worker.py 230-264: the images step computes job.image_durations
CalculateExtendedDurations ==
  /\ plan.pc = "images"
  /\ plan' = [plan EXCEPT !.pc = "subtitles",
                          !.image_durations = [i \in 1..plan.n |-> extended_duration(plan, i)]]
  /\ UNCHANGED pipeline

\* subtitle_service.py 146-156: the sentences without a readable clip
missing_indices(p) == {i \in 1..p.n : ~p.exists[i]}

\* subtitle_service.py 169
known_total(p) == SumTo([i \in 1..p.n |-> IF p.exists[i] THEN p.audio[i] ELSE 0], p.n)

\* subtitle_service.py 250-253: words is len(sentence.split())
_sentence_weight(words) == Max2(words, 1)

\* subtitle_service.py 178-182: the weights of the missing sentences and their sum
weights(p) ==
  LET w == [i \in 1..p.n |-> IF i \in missing_indices(p)
                             THEN _sentence_weight(p.words[i]) ELSE 0]
  IN IF SumTo(w, p.n) <= 0
     THEN [i \in 1..p.n |-> IF i \in missing_indices(p) THEN 1 ELSE 0]
     ELSE w

total_weight(p) == SumTo(weights(p), p.n)

\* subtitle_service.py 177
remaining(p) == Max2(p.voice - known_total(p), 0)

\* the denominator of the fallback durations: 1 without a division, len(sentences)
\* for the average (185), total_weight for the shares (190)
FallbackDen(p) ==
  IF missing_indices(p) = {} \/ ~p.voice_exists THEN 1
  ELSE IF remaining(p) <= 0 THEN Max2(p.n, 1)
  ELSE total_weight(p)

\* fallback shares that are all the whole remainder
FallbackWholeRemainder(p, i) ==
  IF ~p.voice_exists THEN Ms(5000) * FallbackDen(p)
  ELSE IF remaining(p) <= 0 THEN p.voice
  ELSE remaining(p) * total_weight(p)

\* subtitle_service.py 159-195: the duration given to missing sentence i, as a
\* numerator over FallbackDen
Fallback(p, i) ==
  IF ~p.voice_exists THEN Ms(5000) * FallbackDen(p)
  ELSE IF remaining(p) <= 0 THEN p.voice
  ELSE remaining(p) * weights(p)[i]

\* subtitle_service.py 141-195: durations, as numerators over FallbackDen
SubtitleDurations(p) ==
  [i \in 1..p.n |-> IF p.exists[i] THEN p.audio[i] * FallbackDen(p) ELSE Fallback(p, i)]

\* windows that start after the lead time of their segment
TimingsAfterLead(p) ==
  LET d == SubtitleDurations(p) IN
  [i \in 1..p.n |-> [start |-> SumTo(d, i - 1) + lead_time * FallbackDen(p),
                     end |-> SumTo(d, i)]]

\* subtitle_service.py 197-205: current_time runs over the durations
Timings(p) ==
  LET d == SubtitleDurations(p) IN
  [i \in 1..p.n |-> [start |-> SumTo(d, i - 1), end |-> SumTo(d, i)]]

\* subtitle_service.py 303-319: H:MM:SS.CS, here the centiseconds it stands for; the
\* fraction below a centisecond is dropped
_format_timestamp(num, den) == num \div (den * 10 * TicksPerMs)

\* subtitle_service.py 292-298: the Start and End of the Dialogue lines
Dialogues(p) ==
  [i \in 1..p.n |-> [start |-> _format_timestamp(Timings(p)[i].start, FallbackDen(p)),
                     end |-> _format_timestamp(Timings(p)[i].end, FallbackDen(p))]]

\* worker.py 295-307, subtitle_service.py 65-211: the arguments extended_durations and
\* lead_time are not read by the body
generate_subtitles_with_extended_durations ==
  /\ plan.pc = "subtitles"
  /\ plan' = [plan EXCEPT !.pc = "mix_audio",
                          !.den = FallbackDen(plan),
                          !.durations = SubtitleDurations(plan),
                          !.timings = Timings(plan),
                          !.dialogues = Dialogues(plan)]
  /\ UNCHANGED pipeline

\* tts_service.py 139-141, 177-181: every missing sentence file is skipped, but the
\* filter of a kept file names its input and its label by the index in
\* extended_durations. ffmpeg accepts the graph only when the kept files are the first
\* ones; none kept raises ValueError (175-176)
KeptFiles(p) == {i \in 1..p.n : p.exists[i]}

GraphAccepted(p) == \E k \in 1..p.n : KeptFiles(p) = 1..k

\* tts_service.py 161-163
effective_dur(p, i) ==
  IF i < p.n THEN p.image_durations[i] - VIDEO_CROSSFADE_DURATION
  ELSE p.image_durations[i]

\* tts_service.py 170: int(lead_time * 1000) milliseconds
adelay == Ms(lead_time \div TicksPerMs)

\* a block padded to the whole extended duration, whatever follows it
GappedLengthUncut(p, i) == Max2(adelay + p.audio[i], p.image_durations[i])

\* tts_service.py 169-172: the delayed clip, padded by apad up to whole_dur (a clip
\* that is longer already is not cut)
GappedLength(p, i) == Max2(adelay + p.audio[i], effective_dur(p, i))

\* tts_service.py 136-181: the blocks of the concatenated track
GappedBlocks(p) ==
  LET len == [i \in 1..Cardinality(KeptFiles(p)) |-> GappedLength(p, i)] IN
  [i \in 1..Cardinality(KeptFiles(p)) |->
     [start |-> SumTo(len, i - 1),
      lead |-> adelay,
      audio |-> p.audio[i],
      trailing_silence |-> effective_dur(p, i) - lead_time - p.audio[i],
      padding |-> len[i] - adelay - p.audio[i],
      length |-> len[i]]]

\* video_renderer.py 572-594: the length of the xfade chain; every transition
\* overlaps two clips by the crossfade
CrossfadedTotal(p) ==
  SumTo(p.image_durations, p.n) - (p.n - 1) * VIDEO_CROSSFADE_DURATION

\* worker.py 334-335
TargetDuration(p) == SumTo(p.image_durations, p.n)

\* worker.py 330-357: the target duration, then create_gapped_audio; its
\* RuntimeError fails the job, otherwise target_duration goes to mix_audio
MixAudio ==
  /\ plan.pc = "mix_audio"
  /\ plan' = IF GraphAccepted(plan)
             THEN [plan EXCEPT !.pc = "render_video",
                               !.target_duration = TargetDuration(plan),
                               !.blocks = GappedBlocks(plan)]
             ELSE [plan EXCEPT !.pc = "failed",
                               !.target_duration = TargetDuration(plan)]
  /\ UNCHANGED pipeline

\* an offset that forgets the transitions before it
transition_offset_from_zero(durations, i) == durations[i] - VIDEO_CROSSFADE_DURATION

RECURSIVE transition_offset(_, _)
\* video_renderer.py 572-580, 591: the offset of the transition into clip i + 1
transition_offset(durations, i) ==
  IF i = 1 THEN durations[1] - VIDEO_CROSSFADE_DURATION
  ELSE transition_offset(durations, i - 1) + durations[i] - VIDEO_CROSSFADE_DURATION

\* video_renderer.py 588: "{:.3f}", the nearest whole millisecond (a tie goes to the
\* even one)
Format3f(t) ==
  LET q == t \div TicksPerMs
      r == t % TicksPerMs
  IN IF 2 * r < TicksPerMs THEN q
     ELSE IF 2 * r > TicksPerMs THEN q + 1
     ELSE IF q % 2 = 0 THEN q ELSE q + 1

\* video_renderer.py 522-594: the clips are rendered with -t duration and chained
\* with xfade (one clip is copied)
create_video_from_images ==
  /\ plan.pc = "render_video"
  /\ plan' = [plan EXCEPT
        !.pc = "done",
        !.segments = plan.image_durations,
        !.offsets = [i \in 1..(plan.n - 1) |-> transition_offset(plan.image_durations, i)],
        !.offset_args = [i \in 1..(plan.n - 1) |->
                           Format3f(transition_offset(plan.image_durations, i))]]
  /\ UNCHANGED pipeline

\* no sentence file: NoClip stands for the duration of a file that is not there
NoClip == 0

\* a job of the planner specification before its images step: n images, the clip of
\* each sentence (or none), its words, and voice.wav (or none)
PlanInput(n, c, w, v) ==
  [pc |-> "images", n |-> n, exists |-> [i \in 1..n |-> c[i] # NoClip], audio |-> c,
   words |-> w, voice_exists |-> v # NoClip, voice |-> v,
   image_durations |-> << >>, den |-> 1, durations |-> << >>, timings |-> << >>,
   dialogues |-> << >>, target_duration |-> 0, blocks |-> << >>, segments |-> << >>,
   offsets |-> << >>, offset_args |-> << >>]

NextPlan ==
  \/ CalculateExtendedDurations
  \/ generate_subtitles_with_extended_durations
  \/ MixAudio
  \/ create_video_from_images

\* up to MaxSegments images, each sentence with its clip or without and with up to
\* MaxWords words, voice.wav present or not
InitPlan ==
  /\ InitService(1, TRUE, << >>, 0) /\ send = NoPlan /\ short = NoPlan
  /\ \E n \in 1..MaxSegments :
       \E c \in [1..n -> ClipDurations \cup {NoClip}], w \in [1..n -> 0..MaxWords],
          v \in VoiceDurations \cup {NoClip} :
         plan = PlanInput(n, c, w, v)

SpecPlan == InitPlan /\ [][NextPlan]_vars


\* C22: the target duration computed for the job and handed to audio mixing is
\* sum(extended) - (n - 1) * X, which for one segment is extended[1]
C22_TargetDurationIsCrossfadedTotal ==
  plan.pc \in {"render_video", "done"} => plan.target_duration = CrossfadedTotal(plan)


\* C23: the subtitle timing windows are contiguous and ordered: the first starts at 0,
\* each window starts where the one before it ends, and none has a negative length;
\* the same holds for the Start and End stamps written to the Dialogue lines
C23_WindowsContiguousAndOrdered ==
  plan.pc \in {"mix_audio", "render_video", "failed", "done"} =>
    /\ Len(plan.timings) = plan.n
    /\ plan.timings[1].start = 0
    /\ plan.dialogues[1].start = 0
    /\ \A i \in 1..plan.n :
         /\ plan.timings[i].start <= plan.timings[i].end
         /\ plan.dialogues[i].start <= plan.dialogues[i].end
    /\ \A i \in 2..plan.n :
         /\ plan.timings[i].start = plan.timings[i - 1].end
         /\ plan.dialogues[i].start = plan.dialogues[i - 1].end

\* three windows have been written, one of them for a sentence without a clip
C23_Witness ==
  /\ plan.pc = "mix_audio" /\ plan.n = 3
  /\ missing_indices(plan) # {}
  /\ plan.timings[3].start > plan.timings[2].start
  /\ plan.timings[2].start > 0


\* C24: the subtitle windows cover exactly [0, total_duration]: the first starts at 0
\* and the last ends at T = sum(extended) - (n - 1) * X
C24_WindowsCoverTotalDuration ==
  plan.pc \in {"mix_audio", "render_video", "failed", "done"} =>
    /\ plan.timings[1].start = 0
    /\ plan.timings[plan.n].end = CrossfadedTotal(plan) * plan.den


\* video_renderer.py 572-580: clip i is shown from the offset of the transition into
\* it (the first from 0) for its extended duration
DisplayStart(p, i) == IF i = 1 THEN 0 ELSE p.offsets[i - 1]

\* t (a numerator over den) lies in the visible window of segment i
InVisibleWindow(p, i, t, den) ==
  /\ DisplayStart(p, i) * den <= t
  /\ t <= (DisplayStart(p, i) + p.segments[i]) * den

\* C25: in a rendered generated_images job the subtitle window of segment i starts
\* within 100 ms of the start of its narration in the gapped track (display start plus
\* lead time), and both starts lie inside the visible window of segment i
C25_SubtitleStartsWithNarration ==
  plan.pc = "done" =>
    \A i \in 1..Len(plan.blocks) :
      LET narration == plan.blocks[i].start + plan.blocks[i].lead
          subtitle == plan.timings[i].start
      IN /\ subtitle - narration * plan.den <= Ms(100) * plan.den
         /\ narration * plan.den - subtitle <= Ms(100) * plan.den
         /\ InVisibleWindow(plan, i, subtitle, plan.den)
         /\ InVisibleWindow(plan, i, narration, 1)


\* C26: when every sentence audio file exists, the start of segment i's block in the
\* gapped narration track equals the xfade offset of the transition into clip i, both
\* being the sum over j < i of (extended[j] - X), and the rendered clip of segment i
\* is extended[i] long, for every n. The offset is written with three decimals: the
\* argument ffmpeg reads is the same offset to the nearest millisecond
C26_BlockStartsAreXfadeOffsets ==
  plan.pc = "done" /\ KeptFiles(plan) = 1..plan.n =>
    /\ Len(plan.blocks) = plan.n /\ Len(plan.segments) = plan.n
    /\ Len(plan.offsets) = plan.n - 1
    /\ plan.blocks[1].start = 0
    /\ \A i \in 1..plan.n : plan.segments[i] = extended_duration(plan, i)
    /\ \A i \in 2..plan.n :
         /\ plan.blocks[i].start = plan.offsets[i - 1]
         /\ plan.offsets[i - 1] =
              SumTo([j \in 1..plan.n |-> extended_duration(plan, j) - VIDEO_CROSSFADE_DURATION],
                    i - 1)
         /\ 2 * (Ms(plan.offset_args[i - 1]) - plan.offsets[i - 1]) <= TicksPerMs
         /\ 2 * (plan.offsets[i - 1] - Ms(plan.offset_args[i - 1])) <= TicksPerMs

\* three clips are chained; the second offset is not a whole number of milliseconds
C26_Witness ==
  /\ plan.pc = "done" /\ plan.n = 3 /\ KeptFiles(plan) = 1..3
  /\ plan.blocks[3].start = plan.offsets[2]
  /\ Ms(plan.offset_args[2]) # plan.offsets[2]


\* the sentence clips of the worked example: 2.0 s, 1.0 s and 4.0 s, all present
ExampleClips(p) ==
  /\ p.n = 3 /\ KeptFiles(p) = 1..3
  /\ p.audio = << Ms(2000), Ms(1000), Ms(4000) >>

\* C27: for clip durations [2.0, 1.0, 4.0] (L = 0.25, G = 0.5, X = 0.5) the planner
\* yields extended = [3.5, 2.5, 5.0] and T = 10.0
C27_WorkedExample ==
  ExampleClips(plan) /\ plan.pc \in {"render_video", "done"} =>
    /\ plan.image_durations = << Ms(3500), Ms(2500), Ms(5000) >>
    /\ plan.target_duration = Ms(10000)


\* C28: for each segment the planner computes extended[i] = L + d[i] + B(d[i]) + G,
\* where d[i] is the measured duration of the sentence clip; B is non-increasing in d,
\* and L and G are the same for all segments: what is left of extended[i] after d[i], L
\* and G is one of the three buffers, and of two segments the one with the shorter
\* clip never has the smaller one
C28_ExtendedIsLeadAudioBufferLinger ==
  plan.pc \in {"subtitles", "mix_audio", "render_video", "failed", "done"} =>
    /\ Len(plan.image_durations) = plan.n
    /\ \A i \in KeptFiles(plan) :
         plan.image_durations[i] - plan.audio[i] - lead_time - linger_time
            \in {Ms(250), Ms(500), Ms(750)}
    /\ \A i, k \in KeptFiles(plan) :
         plan.audio[i] <= plan.audio[k] =>
           plan.image_durations[i] - plan.audio[i] >= plan.image_durations[k] - plan.audio[k]

\* two measured clips of different tiers: the shorter one has the larger buffer
C28_Witness ==
  /\ plan.pc = "subtitles"
  /\ \E i, k \in KeptFiles(plan) :
       /\ plan.audio[i] < plan.audio[k]
       /\ plan.image_durations[i] - plan.audio[i] > plan.image_durations[k] - plan.audio[k]


\* C29 as stated: within segment i's block of the gapped narration track there are L
\* seconds of silence, then the clip of length d[i], then silence padding so that the
\* block's total length is extended[i]; the trailing padding is never negative
C29_BlockFillsExtendedDuration ==
  plan.pc \in {"render_video", "done"} =>
    \A i \in 1..Len(plan.blocks) :
      /\ plan.blocks[i].lead = lead_time
      /\ plan.blocks[i].audio = plan.audio[i]
      /\ plan.blocks[i].padding >= 0
      /\ plan.blocks[i].lead + plan.blocks[i].audio + plan.blocks[i].padding
           = plan.blocks[i].length
      /\ plan.blocks[i].length = plan.image_durations[i]

\* C29: within segment i's block of the gapped narration track there are L seconds of
\* silence, then the clip of length d[i], then silence padding so that the block's
\* total length is extended[i] - X for every segment but the last and extended[i] for
\* the last (X is the crossfade the next clip overlaps it by); the trailing padding is
\* never negative
C29_BlockFillsDurationLessCrossfade ==
  plan.pc \in {"render_video", "done"} =>
    \A i \in 1..Len(plan.blocks) :
      /\ plan.blocks[i].lead = lead_time
      /\ plan.blocks[i].audio = plan.audio[i]
      /\ plan.blocks[i].padding >= 0
      /\ plan.blocks[i].padding = plan.blocks[i].trailing_silence
      /\ plan.blocks[i].lead + plan.blocks[i].audio + plan.blocks[i].padding
           = plan.blocks[i].length
      /\ plan.blocks[i].length =
           IF i < plan.n THEN plan.image_durations[i] - VIDEO_CROSSFADE_DURATION
           ELSE plan.image_durations[i]

\* a track of three blocks: the first two end a crossfade early, the last does not
C29_Witness ==
  /\ plan.pc = "render_video" /\ plan.n = 3 /\ Len(plan.blocks) = 3
  /\ plan.blocks[1].length = plan.image_durations[1] - VIDEO_CROSSFADE_DURATION
  /\ plan.blocks[3].length = plan.image_durations[3]
  /\ plan.blocks[2].padding > 0


C31_ExtendedExceedsCrossfade ==
  plan.pc \in {"subtitles", "mix_audio", "render_video", "failed", "done"} =>
    /\ Len(plan.image_durations) = plan.n
    /\ \A i \in 1..plan.n :
         /\ plan.image_durations[i] > VIDEO_CROSSFADE_DURATION
         /\ plan.image_durations[i] - 2 * VIDEO_CROSSFADE_DURATION > 0
    /\ \A i \in 1..Len(plan.blocks) : plan.blocks[i].length > 0
    /\ \A i \in 1..Len(plan.segments) : plan.segments[i] > VIDEO_CROSSFADE_DURATION

\* a clip of one tick between two others has been rendered
C31_Witness ==
  /\ plan.pc = "done" /\ plan.n = 3 /\ KeptFiles(plan) = 1..3
  /\ plan.audio[2] = 1
  /\ plan.segments[2] < Ms(2000)


\* ------------------------------------------------------ the status route
\* routes.py 498-519: GET /status/{job_id}. JobManager.get_job_status is a coroutine
\* function (job_manager.py 178) and line 506 calls it without await: job_status is
\* a coroutine object, for a job that is stored and for one that is not. It is
\* truthy, so the 404 of 508-509 is skipped, and it has no attribute job_id: building
\* the RenderResponse (511-519) raises AttributeError, which FastAPI answers with 500
\* and no body. The handler changes no state
get_job_status_route(j) ==
  LET job_status == "coroutine" IN
  IF job_status = None
  THEN [status_code |-> 404, body |-> NoRow]
  ELSE IF job_status = "coroutine"
       THEN [status_code |-> 500, body |-> NoRow]
       ELSE [status_code |-> 200, body |-> job_statuses[j]]

\* C32: partial results are visible before completion and consistent with the step
\* marker: a stored step at or beyond voiceover_uploaded implies the voice locator
\* is recorded, a stored step at or beyond assets_uploaded implies the subtitle and
\* video locators are recorded, and a status query returns these locators while the
\* status is still processing
C32_PartialResultsVisible ==
  \A j \in Jobs :
    job_statuses[j] # NoRow =>
      /\ step_order(job_statuses[j].step) >= step_order("voiceover_uploaded") =>
           job_statuses[j].voice_url # NoLoc
      /\ step_order(job_statuses[j].step) >= step_order("assets_uploaded") =>
           job_statuses[j].subtitles_url # NoLoc /\ job_statuses[j].video_url # NoLoc
      /\ job_statuses[j].status = "processing" /\ job_statuses[j].voice_url # NoLoc =>
           /\ get_job_status_route(j).status_code = 200
           /\ get_job_status_route(j).body = job_statuses[j]


\* C33: jobs are handed to workers in FIFO order: while the service runs, an entry is
\* only ever added behind the entries that wait (by add_job, requeue_job or the
\* restart rebuild) and only the oldest entry is ever taken, so an entry enqueued
\* before another is dequeued before it
C33_QueueIsFifo ==
  [][alive' =>
       /\ Len(job_queue') > Len(job_queue) =>
            SubSeq(job_queue', 1, Len(job_queue)) = job_queue
       /\ Len(job_queue') < Len(job_queue) => job_queue' = Tail(job_queue)
       /\ Len(job_queue') = Len(job_queue) => job_queue' = job_queue]_vars

\* a worker runs a job that it took from the queue as add_job had put it there, while
\* an entry that requeue_job added for the other job waits at the head
C33_Witness ==
  /\ job_queue # << >>
  /\ job_queue[1].via = "requeue_job"
  /\ \E w \in Workers :
       /\ InProcessJob(w)
       /\ wk[w].job.via = "add_job"
       /\ wk[w].job.job_id # job_queue[1].job_id


\* C34: re-submission is the recovery path for a failed job: requeue_job enqueues a
\* job, once, only if the job is failed, and then sets its status to queued and
\* clears its error while keeping its step and artifact locators; a job that is
\* queued, processing or completed is left as it is and nothing is enqueued for it
C34_RequeueOnlyFailedJob ==
  [][\A j \in Jobs :
       RequeueJobResume(j) =>
         /\ job_statuses[j] # NoRow /\ job_statuses[j].status = "failed"
         /\ job_statuses'[j] = [job_statuses[j] EXCEPT !.status = "queued", !.error = None]
         /\ db'[j] = [db[j] EXCEPT !.status = "queued", !.error = None]
         /\ Len(job_queue') = Len(job_queue) + 1]_vars


\* C35: completed is an absorbing state: once a job's status is completed, no worker
\* delivery, requeue_job call or process restart changes its status, step or artifact
\* locators, in the durable row or in the in-memory record (which a restart rebuilds
\* from the row)
C35_CompletedIsAbsorbing ==
  [][\A j \in Jobs :
       /\ db[j] # NoRow /\ db[j].status = "completed" => db'[j] = db[j]
       /\ job_statuses[j] # NoRow /\ job_statuses[j].status = "completed"
            /\ job_statuses'[j] # NoRow => job_statuses'[j] = job_statuses[j]]_vars

-----------------------------------------------------------------------------
\* The webhook sender, attempt by attempt (webhook_service.py 127-173).  SpecWebhook
\* follows one _send_webhook call: the event it carries, whether a webhook_url is
\* configured, and what every POST ends in.  An attempt ends in a response with a
\* status code or in an exception of httpx (TimeoutException after WEBHOOK_TIMEOUT,
\* HTTPError) or any other Exception; all three except clauses log and go on.

WEBHOOK_RETRY_ATTEMPTS == 1

\* a loop whose test is attempt <= max_attempts: one attempt more
max_attempts_inclusive == Max2(1, WEBHOOK_RETRY_ATTEMPTS + 1) + 1

\* webhook_service.py 131: max_attempts = max(1, WEBHOOK_RETRY_ATTEMPTS + 1)
max_attempts == Max2(1, WEBHOOK_RETRY_ATTEMPTS + 1)

\* webhook_service.py 127-134: without a webhook_url the call returns at once; with
\* one, the loop is entered (attempt < max_attempts holds for attempt = 0) and the
\* first attempt is counted
_send_webhook_enter ==
  /\ send.pc = "called"
  /\ send' = IF ~send.webhook_url
               THEN [send EXCEPT !.pc = "returned"]
               ELSE [send EXCEPT !.pc = "post", !.attempt = 1]
  /\ UNCHANGED << alive, max_concurrent_jobs, webhook_up, requests, requeues_left,
                  responses, db, job_statuses, job_queue, semaphore, requeue_calls, wk,
                  files, row_writes, plan, short >>

\* webhook_service.py 136-170: one POST.  A 2xx response returns; anything else is
\* logged, and the call sleeps before the next attempt if one is left, or leaves
\* the loop and returns
client_post ==
  /\ send.pc = "post"
  /\ \E o \in [kind : {"response"}, status_code : {200, 204, 302, 404, 500}]
              \cup [kind : {"TimeoutException", "HTTPError", "Exception"},
                    status_code : {0}] :
       send' = [send EXCEPT
                  !.log = Append(@, o),
                  !.pc = IF o.kind = "response" /\ 200 <= o.status_code /\ o.status_code < 300
                           THEN "returned"
                           ELSE IF send.attempt < max_attempts THEN "sleep" ELSE "returned"]
  /\ UNCHANGED << alive, max_concurrent_jobs, webhook_up, requests, requeues_left,
                  responses, db, job_statuses, job_queue, semaphore, requeue_calls, wk,
                  files, row_writes, plan, short >>

\* webhook_service.py 172-173, 134-135: asyncio.sleep(0.5 * attempt) returns, the
\* loop test holds and the next attempt is counted
sleep_returns ==
  /\ send.pc = "sleep"
  /\ send' = [send EXCEPT !.pc = "post", !.attempt = @ + 1]
  /\ UNCHANGED << alive, max_concurrent_jobs, webhook_up, requests, requeues_left,
                  responses, db, job_statuses, job_queue, semaphore, requeue_calls, wk,
                  files, row_writes, plan, short >>

NextWebhook == _send_webhook_enter \/ client_post \/ sleep_returns

InitWebhook ==
  /\ InitService(1, TRUE, << >>, 0) /\ plan = NoPlan /\ short = NoPlan
  /\ \E e \in {"voiceover_uploaded", "video_completed", "job_failed", "status_update"},
        u \in BOOLEAN :
       send = [pc |-> "called", event |-> e, webhook_url |-> u, attempt |-> 0, log |-> << >>]

\* the POST has a timeout and the sleep is finite, so a call that can take a step
\* takes it
SpecWebhook == InitWebhook /\ [][NextWebhook]_vars /\ WF_vars(NextWebhook)


\* C36: _send_webhook makes at most WEBHOOK_RETRY_ATTEMPTS + 1 delivery attempts (the
\* limit is at least one), makes no attempt after a 2xx response, never raises
\* whatever the attempts end in, and always returns
C36_WebhookAttemptsBounded ==
  /\ [](/\ Len(send.log) <= WEBHOOK_RETRY_ATTEMPTS + 1
        /\ max_attempts >= 1
        /\ send.pc # "raised"
        /\ \A i \in 1..Len(send.log) :
             (send.log[i].kind = "response" /\ send.log[i].status_code \in 200..299)
               => i = Len(send.log) /\ send.pc = "returned"
        /\ send.pc = "returned" /\ send.webhook_url => Len(send.log) >= 1
        /\ send.pc = "returned" /\ Len(send.log) < max_attempts /\ send.webhook_url
             => send.log[Len(send.log)].status_code \in 200..299)
  /\ <>(send.pc = "returned")

\* a call that timed out, slept, tried again, got a 500 and returned
C36_Witness ==
  /\ send.pc = "returned"
  /\ Len(send.log) = 2
  /\ send.log[1].kind = "TimeoutException"
  /\ send.log[2].kind = "response" /\ send.log[2].status_code = 500

\* C37: a job's error field is non-empty only if its status is failed, in the record
\* and in the row: every write of status queued, processing or completed leaves the
\* error empty, and an error appears in a row only in the step in which a worker
\* running that job enters its failure handler (in a record also when a start loads
\* it from the row)
C37_ErrorOnlyIfFailed ==
  /\ [](\A j \in Jobs :
          /\ job_statuses[j] # NoRow /\ job_statuses[j].error # None
               => job_statuses[j].status = "failed"
          /\ db[j] # NoRow /\ db[j].error # None => db[j].status = "failed")
  /\ [][\A j \in Jobs :
          LET handler == \E w \in Workers : /\ wk[w].job.job_id = j
                                            /\ wk[w].pc # "failed" /\ wk'[w].pc = "failed"
              set(old, new) == /\ new # NoRow /\ new.error # None
                               /\ (old = NoRow \/ old.error # new.error)
          IN
          /\ set(db[j], db'[j]) => handler /\ db'[j].status = "failed"
          /\ set(job_statuses[j], job_statuses'[j])
               => \/ handler /\ job_statuses'[j].status = "failed"
                  \/ ~alive /\ alive' /\ job_statuses'[j].error = db[j].error
          /\ db[j] # NoRow /\ db'[j] # NoRow /\ db'[j] # db[j]
               /\ db'[j].status \in {"queued", "processing", "completed"}
               => db'[j].error = None
          /\ job_statuses[j] # NoRow /\ job_statuses'[j] # NoRow
               /\ job_statuses'[j] # job_statuses[j]
               /\ job_statuses'[j].status \in {"queued", "processing", "completed"}
               => job_statuses'[j].error = None]_vars

\* a job that failed and was requeued: the requeue_job entry is being run, the status
\* is processing and the error is empty again, while the step still says where the
\* failed run stopped
C37_Witness ==
  \E w \in Workers, j \in Jobs :
    /\ InProcessJob(w) /\ wk[w].job.job_id = j /\ wk[w].job.via = "requeue_job"
    /\ job_statuses[j] # NoRow /\ job_statuses[j].status = "processing"
    /\ job_statuses[j].error = None
    /\ db[j].status = "processing" /\ db[j].error = None

\* C38: a job directory is deleted only when the run that used it ended in completed
\* or failed: in every step that empties the directory of a job, the job's row says
\* completed or failed afterwards; a job that is still queued or processing
\* (interrupted by the cancellation at shutdown, or requeued while its failed run is
\* still cleaning up) keeps its directory
C38_DirectoryRemovedOnlyAfterRunEnded ==
  [][\A j \in Jobs :
       files[j] # {} /\ files'[j] = {}
         => db'[j] # NoRow /\ db'[j].status \in {"completed", "failed"}]_vars

-----------------------------------------------------------------------------
\* The images step of a generated_images job, list by list (worker.py 223-277).
\* SpecImages follows one job from its sentences to job.image_paths and
\* job.image_durations.  enhance_prompts returns one prompt per sentence
\* (prompt_enhancement_service.py 96-105), so prompt k (counted from 0) is the prompt
\* of sentence k + 1.  An image is known by the index in its file name image_{k}.jpg,
\* a sentence by its position in the script, a duration by its value.

\* ai_thumbnail_service.py 80-125: generate_one(k, prompt) returns image_{k}.jpg, or
\* None when both of its attempts raise; the batch returns the paths that are not
\* None, in prompt order
generate_images_batch ==
  /\ plan.pc = "generate_images_batch"
  /\ \E ok \in [1..Len(plan.sentences) -> BOOLEAN] :
       LET results == [i \in 1..Len(plan.sentences) |-> [none |-> ~ok[i], index |-> i - 1]]
           kept == SelectSeq(results, LAMBDA path : ~path.none)
           successful_paths == [i \in 1..Len(kept) |-> kept[i].index]
       IN plan' = [plan EXCEPT !.pc = "durations", !.image_paths = successful_paths]
  /\ UNCHANGED pipeline

\* worker.py 230-264: num_images = len(image_paths); the sentences are cut to the
\* first num_images; duration i is computed from sentence_{i:03d}.wav
TruncateSentences ==
  /\ plan.pc = "durations"
  /\ LET num_images == Len(plan.image_paths) IN
     plan' = [plan EXCEPT
        !.pc = "subtitles",
        !.sentences = IF num_images < Len(@) THEN SubSeq(@, 1, num_images) ELSE @,
        !.image_durations = [i \in 1..num_images |-> extended_duration(plan, i)]]
  /\ UNCHANGED pipeline

NextImages == generate_images_batch \/ TruncateSentences

\* up to MaxSegments sentences, each with its clip or without
InitImages ==
  /\ InitService(1, TRUE, << >>, 0) /\ send = NoPlan /\ short = NoPlan
  /\ \E n \in 1..MaxSegments :
       \E c \in [1..n -> ClipDurations \cup {NoClip}] :
         plan = [pc |-> "generate_images_batch", sentences |-> [i \in 1..n |-> i],
                 exists |-> [i \in 1..n |-> c[i] # NoClip], audio |-> c,
                 image_paths |-> << >>, image_durations |-> << >>]

SpecImages == InitImages /\ [][NextImages]_vars


\* C39: in generated_images mode, after the images step the lists of images, extended
\* durations and sentences have the same length and position i of each refers to the
\* same sentence: image i was generated from the prompt of sentence i and duration i
\* is the extended duration of the clip of sentence i, also when the generation of
\* some images failed
C39_ListsAlignedBySentence ==
  plan.pc = "subtitles" =>
    /\ Len(plan.image_paths) = Len(plan.image_durations)
    /\ Len(plan.image_paths) = Len(plan.sentences)
    /\ \A i \in 1..Len(plan.sentences) :
         /\ plan.image_paths[i] + 1 = plan.sentences[i]
         /\ plan.image_durations[i] = extended_duration(plan, plan.sentences[i])

-----------------------------------------------------------------------------
\* The thumbnail and bake steps of one job, run by run (worker.py 102-115, 403-497,
\* 500-503, 533-537).  SpecBake starts in the first run of a job, just after the
\* rendered video final.mp4 was uploaded and recorded with step assets_uploaded, and
\* follows the job through runs that fail or are killed and are resumed.  A video
\* file or object is known by << k >>, k the number of thumbnail frames it starts
\* with, and is NoLoc where there is none; the job directory is known by thumbnail.jpg
\* and by base.mp4, the file
\* download_video writes and reuses (video_renderer.py 386-390); the row by status,
\* step, thumbnail_url and the name of the object video_url locates.

MaxResumes == 2

\* video_renderer.py 362-410 as called at 430, 455: the local file is kept when there
\* is one, else base.mp4 is used or downloaded from the object video_url names
download_video(b) ==
  IF b.final_video # NoLoc THEN b.final_video
  ELSE IF b.base # NoLoc THEN b.base
       ELSE IF b.video_url = "final_with_thumb.mp4" THEN b.baked_object ELSE << 0 >>

\* worker.py 67-115, 212-216, 219-222, 283-287: a worker takes the queued job; the
\* locals come from the row; the assets are ready, so nothing is rendered, and
\* is_short comes from the aspect ratio of a generated_images job and from the
\* default 16:9 dimensions of a base_video job
StartRun ==
  /\ short.pc = "queued"
  /\ short' = [short EXCEPT
        !.pc = "thumbnail",
        !.row.status = "processing",
        !.step_index = step_order(short.row.step),
        !.thumbnail_url = short.row.thumbnail_url,
        !.video_url = short.row.video_url,
        !.final_video = NoLoc,
        !.thumbnail_file = FALSE,
        !.is_short = (short.mode = "generated_images" /\ short.aspect_short)]
  /\ UNCHANGED << alive, max_concurrent_jobs, webhook_up, requests, requeues_left,
                  responses, db, job_statuses, job_queue, semaphore, requeue_calls, wk,
                  files, row_writes, plan, send >>

\* worker.py 420-449: the thumbnail step, skipped when the row has a thumbnail at or
\* past that step; its exceptions are logged and the run goes on
ThumbnailStep ==
  /\ short.pc = "thumbnail"
  /\ IF short.thumbnail_url /\ short.step_index >= step_order("thumbnail")
     THEN short' = [short EXCEPT !.pc = "bake"]
     ELSE \E outcome \in {"uploaded", "generate_thumbnail raises", "upload_thumbnail raises"} :
            LET video == download_video(short)
                made == outcome # "generate_thumbnail raises"
                done == outcome = "uploaded"
            IN short' = [short EXCEPT
                 !.pc = "bake",
                 !.row.step = IF step_order(@) < step_order("thumbnail") THEN "thumbnail" ELSE @,
                 !.final_video = video,
                 !.base = IF short.final_video = NoLoc THEN video ELSE @,
                 !.thumbnail_jpg = @ \/ made,
                 !.thumbnail_file = made,
                 !.thumbnail_url = @ \/ done,
                 !.row.thumbnail_url = @ \/ done,
                 !.step_index = IF done THEN step_order("thumbnail") ELSE @]
  /\ UNCHANGED << alive, max_concurrent_jobs, webhook_up, requests, requeues_left,
                  responses, db, job_statuses, job_queue, semaphore, requeue_calls, wk,
                  files, row_writes, plan, send >>

\* worker.py 451-471: the bake.  thumbnail_path is thumbnail_file or
\* job_dir / "thumbnail.jpg"; the baked file is uploaded under the name
\* final_with_thumb.mp4 and recorded as video_url; an exception of the bake or of the
\* upload is logged and the run goes on
BakeThumbnail ==
  /\ short.pc = "bake"
  /\ IF ~(short.is_short /\ short.thumbnail_url)
     THEN short' = [short EXCEPT !.pc = "completion"]
     ELSE LET video == download_video(short)
              got == [short EXCEPT !.final_video = video,
                                   !.base = IF short.final_video = NoLoc THEN video ELSE @]
          IN IF ~(short.thumbnail_file \/ short.thumbnail_jpg)
             THEN short' = [got EXCEPT !.pc = "completion"]
             ELSE \E outcome \in {"recorded", "bake raises", "upload_video raises"} :
                    short' = IF outcome = "bake raises"
                             THEN [got EXCEPT !.pc = "completion"]
                             ELSE IF outcome = "upload_video raises"
                             THEN [got EXCEPT !.pc = "completion",
                                              !.final_video = << video[1] + 1 >>,
                                              !.bakes = @ + 1]
                             ELSE [got EXCEPT !.pc = "completion",
                                              !.final_video = << video[1] + 1 >>,
                                              !.bakes = @ + 1,
                                              !.baked_object = << video[1] + 1 >>,
                                              !.video_url = "final_with_thumb.mp4",
                                              !.row.video_url = "final_with_thumb.mp4"]
  /\ UNCHANGED << alive, max_concurrent_jobs, webhook_up, requests, requeues_left,
                  responses, db, job_statuses, job_queue, semaphore, requeue_calls, wk,
                  files, row_writes, plan, send >>

\* worker.py 473-497, 533-535: the completion webhook, the statuses video_completed
\* and completed, and the removal of the job directory
CompleteJob ==
  /\ short.pc = "completion"
  /\ short' = [short EXCEPT !.pc = "completed", !.row.status = "completed",
                            !.row.step = "completed",
                            !.thumbnail_jpg = FALSE, !.base = NoLoc]
  /\ UNCHANGED << alive, max_concurrent_jobs, webhook_up, requests, requeues_left,
                  responses, db, job_statuses, job_queue, semaphore, requeue_calls, wk,
                  files, row_writes, plan, send >>

\* worker.py 500-503, 536-537: an awaited call outside the inner try blocks raises
\* (a status update that the database refuses); the job is failed and its directory
\* removed
FailJob ==
  /\ short.pc \in {"thumbnail", "bake", "completion"}
  /\ short' = [short EXCEPT !.pc = "failed", !.row.status = "failed",
                            !.thumbnail_jpg = FALSE, !.base = NoLoc]
  /\ UNCHANGED << alive, max_concurrent_jobs, webhook_up, requests, requeues_left,
                  responses, db, job_statuses, job_queue, semaphore, requeue_calls, wk,
                  files, row_writes, plan, send >>

\* job_manager.py 190-207: requeue_job of the failed job
RequeueFailedJob ==
  /\ short.pc = "failed" /\ short.resumes < MaxResumes
  /\ short' = [short EXCEPT !.pc = "queued", !.row.status = "queued", !.resumes = @ + 1]
  /\ UNCHANGED << alive, max_concurrent_jobs, webhook_up, requests, requeues_left,
                  responses, db, job_statuses, job_queue, semaphore, requeue_calls, wk,
                  files, row_writes, plan, send >>

\* the process is killed during the run: nothing is written, the job directory stays
KillProcess ==
  /\ short.pc \in {"thumbnail", "bake", "completion"}
  /\ short' = [short EXCEPT !.pc = "down"]
  /\ UNCHANGED << alive, max_concurrent_jobs, webhook_up, requests, requeues_left,
                  responses, db, job_statuses, job_queue, semaphore, requeue_calls, wk,
                  files, row_writes, plan, send >>

\* job_manager.py 135-154: the next start puts the processing job back on the queue
RestartProcess ==
  /\ short.pc = "down" /\ short.resumes < MaxResumes
  /\ short' = [short EXCEPT !.pc = "queued", !.row.status = "queued", !.resumes = @ + 1]
  /\ UNCHANGED << alive, max_concurrent_jobs, webhook_up, requests, requeues_left,
                  responses, db, job_statuses, job_queue, semaphore, requeue_calls, wk,
                  files, row_writes, plan, send >>

NextBake ==
  \/ StartRun \/ ThumbnailStep \/ BakeThumbnail \/ CompleteJob
  \/ FailJob \/ RequeueFailedJob \/ KillProcess \/ RestartProcess

\* the first run of a job of either mode and either format, after worker.py 392-401:
\* final.mp4 is uploaded and recorded, and is still the worker's final_video; a
\* base_video job has its base video in base.mp4
InitBake ==
  /\ InitService(1, TRUE, << >>, 0) /\ plan = NoPlan /\ send = NoPlan
  /\ \E m \in {"generated_images", "base_video"}, a \in BOOLEAN :
       short = [pc |-> "thumbnail", mode |-> m, aspect_short |-> a, resumes |-> 0,
                row |-> [status |-> "processing", step |-> "assets_uploaded",
                         thumbnail_url |-> FALSE, video_url |-> "final.mp4"],
                baked_object |-> NoLoc,
                thumbnail_jpg |-> FALSE, base |-> IF m = "base_video" THEN << 0 >> ELSE NoLoc,
                step_index |-> step_order("assets_uploaded"), thumbnail_url |-> FALSE,
                video_url |-> "final.mp4", final_video |-> << 0 >>, thumbnail_file |-> FALSE,
                is_short |-> a, bakes |-> 0]

SpecBake == InitBake /\ [][NextBake]_vars


\* C40: for a short-format job the thumbnail is baked into the final video at most
\* once over the job's lifetime: the video that video_url names starts with at most
\* one thumbnail frame, and a run that finds the baked video uploaded and recorded
\* does not bake again
C40_ThumbnailBakedAtMostOnce ==
  /\ [](short.row.video_url = "final_with_thumb.mp4" => short.baked_object[1] <= 1)
  /\ [][short.pc = "bake" /\ short.row.video_url = "final_with_thumb.mp4"
          => short'.bakes = short.bakes]_vars

====
